---- MODULE Spec2Model ----
(***************************************************************************)
(* Model of the akatsuki HEADLESS API generator (packages/akatsuki-cli,    *)
(* commands/api): the entity schema and its derived views, the per-artifact *)
(* render contexts, and the file emission of single and batch generation.  *)
(*                                                                         *)
(* Conventions: a Rust Option<T> is a sequence of length 0 (None) or 1     *)
(* (Some(x)); a Vec<T> is a sequence; a HashSet<T> is a set.               *)
(***************************************************************************)
EXTENDS Integers, Sequences, FiniteSets, TLC

VARIABLES
    schema,         \* the EntitySchema loaded for the context builders
    out,            \* the render context built last (kind + its fields)
    docs,           \* batch: file name -> document found at that path
    unwritable,     \* batch: output locations whose write fails
    files,          \* batch: the input list of schema file names
    idx,            \* batch: number of loop iterations completed
    success_count,  \* batch: generate_batch's success counter
    error_count,    \* batch: generate_batch's error counter
    results,        \* batch: the ledger Vec<(String, bool, String)>
    disk,           \* batch: output path -> content written there
    clock,          \* batch: the local time last read (chrono::Local::now)
    ret,            \* batch: "running", then generate_batch's Ok / Err
    pc,             \* generate_new: the step of the command reached
    attempts,       \* generate_new: the write_file calls made, in order
    value           \* the argument handed to a template filter

vars == <<schema, out, docs, unwritable, files, idx, success_count,
          error_count, results, disk, clock, ret, pc, attempts, value>>

batchVars == <<docs, unwritable, files, idx, success_count, error_count,
               results, disk, clock, ret>>

cmdVars == <<pc, attempts, value>>

(***************************************************************************)
(* Bounds of the model.                                                    *)
(***************************************************************************)
MaxFields == 2
MaxOps == 2
MaxFiles == 2
MaxUnwritable == 1
MaxClock == 1
MaxStr == 4
MaxCalls == 2

(***************************************************************************)
(* Option and sequence helpers.                                            *)
(***************************************************************************)
None == <<>>
Some(x) == <<x>>
unwrap_or_default(o, d) == IF o = None THEN d ELSE o[1]

SeqsUpTo(S, n) == UNION {[1..k -> S] : k \in 0..n}
Range(s) == {s[i] : i \in 1..Len(s)}
Names(s) == [i \in 1..Len(s) |-> s[i].name]

(***************************************************************************)
(* schema.rs: EntitySchema, Field, Operation and the derived views.        *)
(***************************************************************************)
FieldType == {"string", "number", "integer", "boolean", "uuid",
              "timestamp", "enum", "array", "json"}
OperationType == {"list", "get", "create", "update", "delete", "custom"}

\* A Field with the serde defaults for the keys a document leaves out.
Field(name, field_type) ==
    [name |-> name, field_type |-> field_type, required |-> FALSE,
     default |-> None, primary_key |-> FALSE, index |-> FALSE,
     enum_values |-> None, array_type |-> None, validation |-> None]

\* A Validation with the serde defaults for the keys a document leaves out.
Validation(min_length, max_length) ==
    [min_length |-> min_length, max_length |-> max_length,
     email |-> FALSE, url |-> FALSE]

\* An Operation with the serde defaults for description and limit.
Operation(op_type, name, filters) ==
    [op_type |-> op_type, name |-> name, filters |-> filters,
     description |-> None, limit |-> None]

\* OperationType::as_str
OperationType_as_str(t) ==
    CASE t = "list" -> "list"
      [] t = "get" -> "get"
      [] t = "create" -> "create"
      [] t = "update" -> "update"
      [] t = "delete" -> "delete"
      [] t = "custom" -> "custom"

\* #[derive(Debug)] of OperationType: the variant's name, by character.
OperationType_debug(t) ==
    CASE t = "list" -> <<"L", "i", "s", "t">>
      [] t = "get" -> <<"G", "e", "t">>
      [] t = "create" -> <<"C", "r", "e", "a", "t", "e">>
      [] t = "update" -> <<"U", "p", "d", "a", "t", "e">>
      [] t = "delete" -> <<"D", "e", "l", "e", "t", "e">>
      [] t = "custom" -> <<"C", "u", "s", "t", "o", "m">>

EntitySchema(fields, operations) ==
    [fields |-> fields, operations |-> operations]

\* self.fields.iter().find(|f| f.name == name)
get_field(s, name) ==
    LET hits == {i \in 1..Len(s.fields) : s.fields[i].name = name}
    IN  IF hits = {} THEN None
        ELSE Some(s.fields[CHOOSE i \in hits : \A j \in hits : i <= j])

\* The writable test without the primary-key exclusion.
IsWritable_keepsPrimaryKey(f) ==
    f.name # "createdAt" /\ f.name # "updatedAt"

IsWritable(f) ==
    ~f.primary_key /\ f.name # "createdAt" /\ f.name # "updatedAt"

writable_fields(s) == SelectSeq(s.fields, IsWritable)

IsUpdatable(f) ==
    /\ ~f.primary_key
    /\ f.name # "userId"
    /\ f.name # "createdAt"
    /\ f.name # "updatedAt"

updatable_fields(s) == SelectSeq(s.fields, IsUpdatable)

\* The index test when a primary key counts as indexed.
IsIndexed_orPrimaryKey(f) == f.index \/ f.primary_key

IsIndexed(f) == f.index

indexed_fields(s) == SelectSeq(s.fields, IsIndexed)

IsEnum(f) == f.field_type = "enum"

enum_fields(s) == SelectSeq(s.fields, IsEnum)

\* Strings are TLA+ strings: format! and push_str are \o.
\* [String]::join(sep)
RECURSIVE join(_, _)
join(v, sep) ==
    IF Len(v) = 0 THEN ""
    ELSE IF Len(v) = 1 THEN v[1]
    ELSE v[1] \o sep \o join(Tail(v), sep)

\* format!("{}", n) of an unsigned integer.
RECURSIVE to_string(_)
to_string(n) ==
    LET digit == <<"0", "1", "2", "3", "4", "5", "6", "7", "8", "9">>
    IN  IF n < 10 THEN digit[n + 1]
        ELSE to_string(n \div 10) \o digit[(n % 10) + 1]

\* The element types when a "string" element is a VARCHAR column.
array_element_sql_type_varchar(element_type) ==
    CASE element_type = "string" -> "VARCHAR"
      [] element_type = "number" -> "INTEGER"
      [] element_type = "boolean" -> "BOOLEAN"
      [] element_type = "uuid" -> "UUID"
      [] OTHER -> "TEXT"

array_element_sql_type(element_type) ==
    CASE element_type = "string" -> "TEXT"
      [] element_type = "number" -> "INTEGER"
      [] element_type = "boolean" -> "BOOLEAN"
      [] element_type = "uuid" -> "UUID"
      [] OTHER -> "TEXT"

sql_type(f) ==
    CASE f.field_type = "string" -> "TEXT"
      [] f.field_type = "number" -> "NUMERIC"
      [] f.field_type = "integer" -> "INTEGER"
      [] f.field_type = "boolean" -> "BOOLEAN"
      [] f.field_type = "uuid" -> "UUID"
      [] f.field_type = "timestamp" -> "TIMESTAMPTZ"
      [] f.field_type = "enum" -> "TEXT"
      [] f.field_type = "array" ->
             IF f.array_type # None
             THEN array_element_sql_type(f.array_type[1]) \o "[]"
             ELSE "TEXT[]"
      [] f.field_type = "json" -> "JSONB"

typescript_element_type(element_type) ==
    CASE element_type = "string" -> "string"
      [] element_type = "number" -> "number"
      [] element_type = "boolean" -> "boolean"
      [] element_type = "uuid" -> "string"
      [] OTHER -> "any"

\* typescript_type when the enum values are joined without their quotes.
typescript_type_unquoted(f) ==
    CASE f.field_type \in {"string", "uuid", "timestamp"} -> "string"
      [] f.field_type \in {"number", "integer"} -> "number"
      [] f.field_type = "boolean" -> "boolean"
      [] f.field_type = "enum" ->
             IF f.enum_values # None
             THEN join(f.enum_values[1], " | ")
             ELSE "string"
      [] f.field_type = "array" ->
             IF f.array_type # None
             THEN typescript_element_type(f.array_type[1]) \o "[]"
             ELSE "string[]"
      [] f.field_type = "json" -> "Record<string, any>"

typescript_type(f) ==
    CASE f.field_type \in {"string", "uuid", "timestamp"} -> "string"
      [] f.field_type \in {"number", "integer"} -> "number"
      [] f.field_type = "boolean" -> "boolean"
      [] f.field_type = "enum" ->
             IF f.enum_values # None
             THEN "'" \o join(f.enum_values[1], "' | '") \o "'"
             ELSE "string"
      [] f.field_type = "array" ->
             IF f.array_type # None
             THEN typescript_element_type(f.array_type[1]) \o "[]"
             ELSE "string[]"
      [] f.field_type = "json" -> "Record<string, any>"

zod_element_type(element_type) ==
    CASE element_type = "string" -> "z.string()"
      [] element_type = "number" -> "z.number()"
      [] element_type = "boolean" -> "z.boolean()"
      [] element_type = "uuid" -> "z.string().uuid()"
      [] OTHER -> "z.any()"

\* The String arm of zod_type: the validation rules pushed in order.
zod_string(f) ==
    IF f.validation = None THEN "z.string()"
    ELSE LET v == f.validation[1]
         IN  "z.string()"
               \o (IF v.min_length # None
                   THEN ".min(" \o to_string(v.min_length[1]) \o ")" ELSE "")
               \o (IF v.max_length # None
                   THEN ".max(" \o to_string(v.max_length[1]) \o ")" ELSE "")
               \o (IF v.email THEN ".email()" ELSE "")
               \o (IF v.url THEN ".url()" ELSE "")

zod_type(f) ==
    CASE f.field_type = "string" -> zod_string(f)
      [] f.field_type = "number" -> "z.number()"
      [] f.field_type = "integer" -> "z.number().int()"
      [] f.field_type = "boolean" -> "z.boolean()"
      [] f.field_type = "uuid" -> "z.string().uuid()"
      [] f.field_type = "timestamp" -> "z.string()"
      [] f.field_type = "enum" ->
             IF f.enum_values # None
             THEN LET values == f.enum_values[1]
                      quoted == [i \in 1..Len(values) |-> "'" \o values[i] \o "'"]
                  IN  "z.enum([" \o join(quoted, ", ") \o "])"
             ELSE "z.string()"
      [] f.field_type = "array" ->
             IF f.array_type # None
             THEN "z.array(" \o zod_element_type(f.array_type[1]) \o ")"
             ELSE "z.array(z.string())"
      [] f.field_type = "json" -> "z.record(z.any())"

(***************************************************************************)
(* generator_contexts.rs: the views handed to the templates.               *)
(***************************************************************************)
\* impl IntoContext<FieldContext> for Field
FieldContext(f) == [name |-> f.name, required |-> f.required]

\* impl IntoContext<EnumFieldContext> for Field
EnumFieldContext(f) ==
    [name |-> f.name, enum_values |-> unwrap_or_default(f.enum_values, <<>>)]

fields_to_context(fs) == [i \in 1..Len(fs) |-> FieldContext(fs[i])]

enum_fields_to_context(s) ==
    [i \in 1..Len(enum_fields(s)) |-> EnumFieldContext(enum_fields(s)[i])]

\* OperationContextBuilder::build, with the builder's flag as a parameter.
OperationContextBuilder_build(s, exclude_enum_fields_from_filters) ==
    LET enum_field_names ==
            IF exclude_enum_fields_from_filters
            THEN {f.name : f \in Range(enum_fields(s))}
            ELSE {}
        Keep(n) == n \notin enum_field_names
        Ctx(op) == [op_type |-> OperationType_as_str(op.op_type),
                    name |-> op.name, description |-> op.description,
                    filters |-> SelectSeq(op.filters, Keep),
                    limit |-> op.limit]
    IN  [i \in 1..Len(s.operations) |-> Ctx(s.operations[i])]

\* The service context built with the enum-field exclusion switched on.
ServiceContext_deduplicated(s) ==
    [kind |-> "service",
     operations |-> OperationContextBuilder_build(s, TRUE),
     writable_fields |-> fields_to_context(writable_fields(s)),
     updatable_fields |-> fields_to_context(updatable_fields(s)),
     enum_fields |-> enum_fields_to_context(s)]

ServiceContext_from_schema(s) ==
    [kind |-> "service",
     operations |-> OperationContextBuilder_build(s, FALSE),
     writable_fields |-> fields_to_context(writable_fields(s)),
     updatable_fields |-> fields_to_context(updatable_fields(s)),
     enum_fields |-> enum_fields_to_context(s)]

\* The hook context built without the enum-field exclusion.
HookContext_unfiltered(s) ==
    [kind |-> "hook",
     operations |-> OperationContextBuilder_build(s, FALSE),
     writable_fields |-> fields_to_context(writable_fields(s)),
     updatable_fields |-> fields_to_context(updatable_fields(s)),
     enum_fields |-> enum_fields_to_context(s)]

HookContext_from_schema(s) ==
    [kind |-> "hook",
     operations |-> OperationContextBuilder_build(s, TRUE),
     writable_fields |-> fields_to_context(writable_fields(s)),
     updatable_fields |-> fields_to_context(updatable_fields(s)),
     enum_fields |-> enum_fields_to_context(s)]

\* operation_names: filter_map(|op| op.name.clone()) over all operations.
operation_names(s) ==
    {op.name[1] : op \in {o \in Range(s.operations) : o.name # None}}

\* The conflict test without skip(1): the default value counts too.
has_conflict_any_value(s, f) ==
    LET enum_values == unwrap_or_default(f.enum_values, <<>>)
    IN  \E i \in 1..Len(enum_values) : enum_values[i] \in operation_names(s)

\* has_conflict: enum_values.iter().skip(1).any(|v| operation_names.contains(v))
has_conflict(s, f) ==
    LET enum_values == unwrap_or_default(f.enum_values, <<>>)
    IN  \E i \in 2..Len(enum_values) : enum_values[i] \in operation_names(s)

CLIClientContext_from_schema(s) ==
    LET NoConflict(f) == ~has_conflict(s, f)
        kept == SelectSeq(enum_fields(s), NoConflict)
    IN  [kind |-> "cli_client",
         operations |-> OperationContextBuilder_build(s, FALSE),
         writable_fields |-> fields_to_context(writable_fields(s)),
         updatable_fields |-> fields_to_context(updatable_fields(s)),
         enum_fields |-> [i \in 1..Len(kept) |-> EnumFieldContext(kept[i])]]

EdgeFunctionContext_from_schema(s) ==
    [kind |-> "edge_function",
     operations |-> OperationContextBuilder_build(s, FALSE),
     writable_fields |-> fields_to_context(writable_fields(s))]

(***************************************************************************)
(* generator.rs: MigrationContext.  A default (a SQL expression) is a      *)
(* sequence of tokens, so that starts_with and format! act on its text.    *)
(***************************************************************************)
starts_with(d, tok) == Len(d) > 0 /\ d[1] = tok

\* The quoting without the test for an already quoted default.
QuoteDefault_always(f) ==
    IF f.default = None THEN None
    ELSE LET d == f.default[1]
         IN  IF f.field_type \in {"enum", "string"}
             THEN Some(<<"'">> \o d \o <<"'">>)
             ELSE Some(d)

\* Quote enum/string defaults unless already quoted or a SQL function call.
QuoteDefault(f) ==
    IF f.default = None THEN None
    ELSE LET d == f.default[1]
         IN  IF f.field_type \in {"enum", "string"}
             THEN IF \/ starts_with(d, "'")
                     \/ starts_with(d, "gen_random_uuid")
                     \/ starts_with(d, "NOW")
                  THEN Some(d)
                  ELSE Some(<<"'">> \o d \o <<"'">>)
             ELSE Some(d)

\* generator.rs's FieldContext (the migration's view of one column).
MigrationFieldContext(name, sqlt, required, default, pk, references, index, enum_values) ==
    [name |-> name, sql_type |-> sqlt, required |-> required,
     default |-> default, primary_key |-> pk, references |-> references,
     index |-> index, enum_values |-> enum_values]

StdId ==
    MigrationFieldContext("id", "UUID", TRUE, Some(<<"gen_random_uuid", "()">>),
                          TRUE, None, FALSE, None)
StdUserId ==
    MigrationFieldContext("userId", "UUID", TRUE, None, FALSE,
                          Some("auth.users(id)"), TRUE, None)
StdCreatedAt ==
    MigrationFieldContext("createdAt", "TIMESTAMPTZ", FALSE,
                          Some(<<"NOW", "()">>), FALSE, None, FALSE, None)
StdUpdatedAt ==
    MigrationFieldContext("updatedAt", "TIMESTAMPTZ", FALSE,
                          Some(<<"NOW", "()">>), FALSE, None, FALSE, None)
StdUserIdIndex ==
    MigrationFieldContext("userId", "UUID", TRUE, None, FALSE, None, TRUE,
                          None)

UserField(f) ==
    MigrationFieldContext(f.name, sql_type(f), f.required, QuoteDefault(f),
                          f.primary_key, None, f.index, f.enum_values)

UserIndexedField(f) ==
    MigrationFieldContext(f.name, sql_type(f), f.required, f.default,
                          f.primary_key, None, f.index, f.enum_values)

\* The migration columns when a schema field that carries a standard
\* field's name takes that standard field's place.
MigrationFields_merged(s) ==
    LET std == {"id", "userId", "createdAt", "updatedAt"}
        NotStd(f) == f.name \notin std
        user == SelectSeq(s.fields, NotStd)
    IN  <<StdId, StdUserId>> \o [i \in 1..Len(user) |-> UserField(user[i])]
            \o <<StdCreatedAt, StdUpdatedAt>>

MigrationFields(s) ==
    <<StdId, StdUserId>> \o [i \in 1..Len(s.fields) |-> UserField(s.fields[i])]
        \o <<StdCreatedAt, StdUpdatedAt>>

\* The index list without the owner-reference index.
MigrationIndexedFields_noOwner(s) ==
    [i \in 1..Len(indexed_fields(s)) |-> UserIndexedField(indexed_fields(s)[i])]

MigrationIndexedFields(s) ==
    <<StdUserIdIndex>>
        \o [i \in 1..Len(indexed_fields(s)) |-> UserIndexedField(indexed_fields(s)[i])]

MigrationContext_from_schema(s) ==
    [kind |-> "migration",
     fields |-> MigrationFields(s),
     indexed_fields |-> MigrationIndexedFields(s),
     has_updated_at |-> TRUE]

(***************************************************************************)
(* Input pools: the documents the loader may hand to the builders.         *)
(***************************************************************************)
\* Filter lists of operations (names of fields, enum-typed or not).
FilterPool ==
    {<<>>, <<"type">>, <<"title", "type">>, <<"type", "title">>,
     <<"userId", "type", "title">>}

\* Fields of the filter family: "type" and "title", each enum or string.
FilterFieldPool ==
    {[Field(n, t) EXCEPT !.enum_values =
          IF t = "enum" THEN Some(<<"video", "image">>) ELSE None]
       : n \in {"type", "title"}, t \in {"enum", "string"}}

FilterOpPool ==
    {Operation(t, IF t = "custom" THEN Some("my") ELSE None, fl)
       : t \in {"list", "custom"}, fl \in FilterPool}

FilterSchemas ==
    {EntitySchema(fs, ops) : fs \in SeqsUpTo(FilterFieldPool, MaxFields),
                             ops \in SeqsUpTo(FilterOpPool, MaxOps)}

\* enumValues of the enum-conflict family.
EnumValuePool ==
    {None, Some(<<>>), Some(<<"published">>), Some(<<"draft", "published">>),
     Some(<<"published", "draft">>), Some(<<"draft", "archived">>)}

EnumFieldPool ==
    {[Field("status", "enum") EXCEPT !.enum_values = ev] : ev \in EnumValuePool}
        \cup {Field("title", "string")}

EnumOpPool ==
    {Operation(t, n, <<>>) : t \in {"list", "custom"},
                             n \in {None, Some("published"), Some("draft")}}

EnumSchemas ==
    {EntitySchema(fs, ops) : fs \in SeqsUpTo(EnumFieldPool, MaxFields),
                             ops \in SeqsUpTo(EnumOpPool, MaxOps)}

\* Fields of the derived-view family: standard and user names, any flags.
ViewFieldPool ==
    {[Field(n, "string") EXCEPT !.primary_key = pk, !.index = ix]
       : n \in {"id", "userId", "createdAt", "updatedAt", "title"},
         pk \in BOOLEAN, ix \in BOOLEAN}

ViewSchemas ==
    {EntitySchema(fs, <<>>) : fs \in SeqsUpTo(ViewFieldPool, MaxFields)}

(***************************************************************************)
(* The context builders as actions: each is one from_schema call of        *)
(* CodeGenerator::generate_* on the loaded schema.                         *)
(***************************************************************************)
NoBatch ==
    /\ docs = <<>>
    /\ unwritable = {}
    /\ files = <<>>
    /\ idx = 0
    /\ success_count = 0
    /\ error_count = 0
    /\ results = <<>>
    /\ disk = <<>>
    /\ clock = 0
    /\ ret = "idle"
    /\ pc = "none"
    /\ attempts = <<>>

InitContexts(Schemas) ==
    /\ schema \in Schemas
    /\ out = [kind |-> "none"]
    /\ NoBatch
    /\ value = <<>>

Init == InitContexts(FilterSchemas \cup EnumSchemas)

InitViews == InitContexts(ViewSchemas)

generate_migration ==
    /\ ret = "idle"
    /\ out' = MigrationContext_from_schema(schema)
    /\ UNCHANGED <<schema, batchVars, cmdVars>>

generate_edge_function ==
    /\ ret = "idle"
    /\ out' = EdgeFunctionContext_from_schema(schema)
    /\ UNCHANGED <<schema, batchVars, cmdVars>>

generate_service ==
    /\ ret = "idle"
    /\ out' = ServiceContext_from_schema(schema)
    /\ UNCHANGED <<schema, batchVars, cmdVars>>

generate_hook ==
    /\ ret = "idle"
    /\ out' = HookContext_from_schema(schema)
    /\ UNCHANGED <<schema, batchVars, cmdVars>>

generate_cli_client ==
    /\ ret = "idle"
    /\ out' = CLIClientContext_from_schema(schema)
    /\ UNCHANGED <<schema, batchVars, cmdVars>>

Next ==
    \/ generate_migration
    \/ generate_edge_function
    \/ generate_service
    \/ generate_hook
    \/ generate_cli_client

Spec == Init /\ [][Next]_vars

SpecViews == InitViews /\ [][Next]_vars

(***************************************************************************)
(* generator.rs / mod.rs: file emission.  A document is what from_yaml     *)
(* finds at a path: whether it parses, the entity's name and tableName,    *)
(* and whether its ten templates render.  An output location is a path     *)
(* without the migration's timestamp; a GeneratedFile carries its path,    *)
(* its location and its content.                                           *)
(***************************************************************************)
\* The order of GeneratedFiles::write_to_disk (and of generate_all).
Artifacts ==
    <<"migration", "zod_schema", "repository_edge", "edge_function", "model",
      "service", "hook", "admin_page", "demo_component", "cli_client">>

\* The locations when the entity-named files leave the entity's name out.
Location_withoutEntityName(a, doc) ==
    CASE a \in {"migration", "zod_schema", "edge_function"} ->
             <<a, doc.table_name>>
      [] a = "demo_component" -> <<a, doc.table_name>>
      [] OTHER -> <<a>>

\* CodeGenerator::generate_*: the directory and file name of each artifact.
Location(a, doc) ==
    CASE a \in {"migration", "zod_schema", "edge_function"} ->
             <<a, doc.table_name>>
      [] a = "demo_component" -> <<a, doc.table_name, doc.name>>
      [] OTHER -> <<a, doc.name>>

\* The migration's file name starts with the local time read at generation.
Path(a, doc, now) ==
    IF a = "migration" THEN <<Location(a, doc), now>>
    ELSE <<Location(a, doc)>>

GeneratedFile(a, doc, now) ==
    [path |-> Path(a, doc, now), loc |-> Location(a, doc),
     content |-> <<a, doc.name, doc.table_name>>]

\* CodeGenerator::generate_all on a document whose templates render.
generate_all(doc, now) ==
    [i \in 1..Len(Artifacts) |-> GeneratedFile(Artifacts[i], doc, now)]

\* GeneratedFiles::write_file: create_dir_all + fs::write at file.path.
write_file(d, file) ==
    {e \in d : e.path # file.path}
        \cup {[path |-> file.path, loc |-> file.loc, content |-> file.content]}

\* write_to_disk that carries on after a failed write_file.
RECURSIVE WriteAllWritable(_, _, _, _)
WriteAllWritable(d, gf, k, bad) ==
    IF k > Len(gf) THEN [disk |-> d, ok |-> \A i \in 1..Len(gf) : gf[i].loc \notin bad]
    ELSE IF gf[k].loc \in bad THEN WriteAllWritable(d, gf, k + 1, bad)
    ELSE WriteAllWritable(write_file(d, gf[k]), gf, k + 1, bad)

\* GeneratedFiles::write_to_disk from the k-th artifact on: each write_file
\* is followed by `?`, so the first failure returns.
RECURSIVE WriteFrom(_, _, _, _)
WriteFrom(d, gf, k, bad) ==
    IF k > Len(gf) THEN [disk |-> d, ok |-> TRUE]
    ELSE IF gf[k].loc \in bad THEN [disk |-> d, ok |-> FALSE]
    ELSE WriteFrom(write_file(d, gf[k]), gf, k + 1, bad)

write_to_disk_all(d, gf, bad) == WriteAllWritable(d, gf, 1, bad)

write_to_disk(d, gf, bad) == WriteFrom(d, gf, 1, bad)

(***************************************************************************)
(* Batch inputs.                                                           *)
(***************************************************************************)
FileNames == {"a.yaml", "b.yaml"}

Malformed == [parses |-> FALSE, name |-> "", table_name |-> "", renders |-> FALSE]

DocPool ==
    {Malformed} \cup
    {[parses |-> TRUE, name |-> n, table_name |-> t, renders |-> r]
       : n \in {"Post", "Tag"}, t \in {"posts", "tags"}, r \in BOOLEAN}

\* The artifacts whose location may be unwritable: the first, a middle one
\* and the last of write_to_disk's order.
UnwritableArtifacts == {"migration", "model", "cli_client"}

UnwritablePool ==
    {Location(a, d) : a \in UnwritableArtifacts,
                      d \in {x \in DocPool : x.parses}}

InitBatch ==
    /\ schema = EntitySchema(<<>>, <<>>)
    /\ out = [kind |-> "none"]
    /\ docs \in [FileNames -> DocPool]
    /\ unwritable \in {u \in SUBSET UnwritablePool : Cardinality(u) <= MaxUnwritable}
    /\ files \in SeqsUpTo(FileNames, MaxFiles)
    /\ idx = 0
    /\ success_count = 0
    /\ error_count = 0
    /\ results = <<>>
    /\ disk = {}
    /\ clock = 0
    /\ ret = "running"
    /\ pc = "none"
    /\ attempts = <<>>
    /\ value = <<>>

(***************************************************************************)
(* ApiCommand::generate_batch: one action per outcome of a loop iteration, *)
(* and the summary after the loop.                                         *)
(***************************************************************************)
CurrentFile == files[idx + 1]
CurrentDoc == docs[CurrentFile]

InLoop == ret = "running" /\ idx < Len(files)

\* The loop body when a failed iteration ends the command at once.
BatchParseError_abort ==
    /\ InLoop
    /\ ~CurrentDoc.parses
    /\ error_count' = error_count + 1
    /\ results' = Append(results, <<CurrentFile, FALSE, "parse">>)
    /\ idx' = idx + 1
    /\ ret' = "err"
    /\ \E now \in clock..MaxClock : clock' = now
    /\ UNCHANGED <<cmdVars, schema, out, docs, unwritable, files,
                   success_count, disk>>

\* Err(e) of EntitySchema::from_yaml(path)
BatchParseError ==
    /\ InLoop
    /\ ~CurrentDoc.parses
    /\ error_count' = error_count + 1
    /\ results' = Append(results, <<CurrentFile, FALSE, "parse">>)
    /\ idx' = idx + 1
    /\ \E now \in clock..MaxClock : clock' = now
    /\ UNCHANGED <<cmdVars, schema, out, docs, unwritable, files, success_count, disk,
                   ret>>

\* Err(e) of generator.generate_all()
BatchGenerateError ==
    /\ InLoop
    /\ CurrentDoc.parses
    /\ ~CurrentDoc.renders
    /\ error_count' = error_count + 1
    /\ results' = Append(results, <<CurrentDoc.name, FALSE, "render">>)
    /\ idx' = idx + 1
    /\ \E now \in clock..MaxClock : clock' = now
    /\ UNCHANGED <<cmdVars, schema, out, docs, unwritable, files, success_count, disk,
                   ret>>

\* The loop body when a failed write is still counted among the successes.
BatchWrite_failureCountedAsSuccess ==
    /\ InLoop
    /\ CurrentDoc.parses
    /\ CurrentDoc.renders
    /\ \E now \in clock..MaxClock :
         LET w == write_to_disk(disk, generate_all(CurrentDoc, now), unwritable)
         IN  /\ clock' = now
             /\ disk' = w.disk
             /\ results' = Append(results,
                    IF w.ok THEN <<CurrentDoc.name, TRUE, "OK">>
                    ELSE <<CurrentDoc.name, FALSE, "write">>)
    /\ success_count' = success_count + 1
    /\ error_count' = error_count
    /\ idx' = idx + 1
    /\ UNCHANGED <<cmdVars, schema, out, docs, unwritable, files, ret>>

\* Ok(generated_files), then Ok or Err of generated_files.write_to_disk()
BatchWrite ==
    /\ InLoop
    /\ CurrentDoc.parses
    /\ CurrentDoc.renders
    /\ \E now \in clock..MaxClock :
         LET w == write_to_disk(disk, generate_all(CurrentDoc, now), unwritable)
         IN  /\ clock' = now
             /\ disk' = w.disk
             /\ IF w.ok
                THEN /\ success_count' = success_count + 1
                     /\ error_count' = error_count
                     /\ results' = Append(results, <<CurrentDoc.name, TRUE, "OK">>)
                ELSE /\ error_count' = error_count + 1
                     /\ success_count' = success_count
                     /\ results' = Append(results, <<CurrentDoc.name, FALSE, "write">>)
    /\ idx' = idx + 1
    /\ UNCHANGED <<cmdVars, schema, out, docs, unwritable, files, ret>>

\* The summary when only a batch without any success is an error.
BatchFinish_allFailed ==
    /\ ret = "running"
    /\ idx = Len(files)
    /\ ret' = IF error_count > 0 /\ success_count = 0 THEN "err" ELSE "ok"
    /\ UNCHANGED <<cmdVars, schema, out, docs, unwritable, files, idx, success_count,
                   error_count, results, disk, clock>>

\* After the loop: bail! when error_count > 0, else Ok(()).
BatchFinish ==
    /\ ret = "running"
    /\ idx = Len(files)
    /\ ret' = IF error_count > 0 THEN "err" ELSE "ok"
    /\ UNCHANGED <<cmdVars, schema, out, docs, unwritable, files, idx, success_count,
                   error_count, results, disk, clock>>

NextBatch ==
    \/ BatchParseError
    \/ BatchGenerateError
    \/ BatchWrite
    \/ BatchFinish

SpecBatch == InitBatch /\ [][NextBatch]_vars

(***************************************************************************)
(* generate_batch as a function of its input list: the loop from the k-th  *)
(* file on, from disk d with errs failures counted so far, every time      *)
(* reading being now.  It gives the disk left behind and the result.       *)
(***************************************************************************)
RECURSIVE generate_batch(_, _, _, _, _)
generate_batch(fs, k, d, errs, now) ==
    IF k > Len(fs) THEN [disk |-> d, ret |-> IF errs > 0 THEN "err" ELSE "ok"]
    ELSE LET doc == docs[fs[k]]
         IN  IF ~doc.parses \/ ~doc.renders
             THEN generate_batch(fs, k + 1, d, errs + 1, now)
             ELSE LET w == write_to_disk(d, generate_all(doc, now), unwritable)
                  IN  generate_batch(fs, k + 1, w.disk,
                                     IF w.ok THEN errs ELSE errs + 1, now)

(***************************************************************************)
(* ApiCommand::generate_new: single-schema generation.  The command is     *)
(* followed step by step: the schema source, generate_all, then the        *)
(* write_file calls of write_to_disk one at a time; attempts records each  *)
(* call and whether it succeeded.                                          *)
(***************************************************************************)
InitNew ==
    /\ schema = EntitySchema(<<>>, <<>>)
    /\ out = [kind |-> "none"]
    /\ docs \in [FileNames -> DocPool]
    /\ unwritable \in {u \in SUBSET UnwritablePool : Cardinality(u) <= MaxUnwritable}
    /\ files \in {None} \cup {Some(f) : f \in FileNames}
    /\ idx = 0
    /\ success_count = 0
    /\ error_count = 0
    /\ results = <<>>
    /\ disk = {}
    /\ clock = 0
    /\ ret = "running"
    /\ pc = "parse"
    /\ attempts = <<>>
    /\ value = <<>>

\* The document at schema_path.
NewDoc == docs[files[1]]

\* The GeneratedFiles held by generate_new once generate_all has returned.
NewFiles == generate_all(NewDoc, clock)

\* from_yaml(&path)? fails; or no schema_path: from_interactive and
\* from_database_types bail, as does the final else branch.
NewParseError ==
    /\ pc = "parse"
    /\ IF files = None THEN TRUE ELSE ~NewDoc.parses
    /\ ret' = "err"
    /\ pc' = "done"
    /\ UNCHANGED <<schema, out, docs, unwritable, files, idx, success_count,
                   error_count, results, disk, clock, attempts, value>>

NewParseOk ==
    /\ pc = "parse"
    /\ files # None
    /\ NewDoc.parses
    /\ pc' = "generate"
    /\ UNCHANGED <<schema, out, docs, unwritable, files, idx, success_count,
                   error_count, results, disk, clock, ret, attempts, value>>

\* generator.generate_all()? fails
NewGenerateError ==
    /\ pc = "generate"
    /\ ~NewDoc.renders
    /\ ret' = "err"
    /\ pc' = "done"
    /\ UNCHANGED <<schema, out, docs, unwritable, files, idx, success_count,
                   error_count, results, disk, clock, attempts, value>>

\* generator.generate_all()? returns the ten files; the migration's name
\* takes the local time read now.
NewGenerateOk ==
    /\ pc = "generate"
    /\ NewDoc.renders
    /\ \E now \in clock..MaxClock : clock' = now
    /\ pc' = "write"
    /\ UNCHANGED <<schema, out, docs, unwritable, files, idx, success_count,
                   error_count, results, disk, ret, attempts, value>>

\* A write_file call whose failure is not propagated.
NewWriteFile_continue ==
    /\ pc = "write"
    /\ Len(attempts) < Len(Artifacts)
    /\ LET file == NewFiles[Len(attempts) + 1]
           a == Artifacts[Len(attempts) + 1]
       IN  IF file.loc \in unwritable
           THEN /\ attempts' = Append(attempts, [artifact |-> a, ok |-> FALSE])
                /\ UNCHANGED disk
           ELSE /\ attempts' = Append(attempts, [artifact |-> a, ok |-> TRUE])
                /\ disk' = write_file(disk, file)
    /\ UNCHANGED <<schema, out, docs, unwritable, files, idx, success_count,
                   error_count, results, clock, ret, pc, value>>

\* The next self.write_file(..)? of write_to_disk; on Err the `?` of
\* write_to_disk and then that of generate_new return it.
NewWriteFile ==
    /\ pc = "write"
    /\ Len(attempts) < Len(Artifacts)
    /\ LET file == NewFiles[Len(attempts) + 1]
           a == Artifacts[Len(attempts) + 1]
       IN  IF file.loc \in unwritable
           THEN /\ attempts' = Append(attempts, [artifact |-> a, ok |-> FALSE])
                /\ ret' = "err"
                /\ pc' = "done"
                /\ UNCHANGED disk
           ELSE /\ attempts' = Append(attempts, [artifact |-> a, ok |-> TRUE])
                /\ disk' = write_file(disk, file)
                /\ UNCHANGED <<ret, pc>>
    /\ UNCHANGED <<schema, out, docs, unwritable, files, idx, success_count,
                   error_count, results, clock, value>>

\* write_to_disk returned Ok(()): the summary is printed, Ok(()) returned.
NewFinish ==
    /\ pc = "write"
    /\ Len(attempts) = Len(Artifacts)
    /\ ret' = "ok"
    /\ pc' = "done"
    /\ UNCHANGED <<schema, out, docs, unwritable, files, idx, success_count,
                   error_count, results, disk, clock, attempts, value>>

NextNew ==
    \/ NewParseError
    \/ NewParseOk
    \/ NewGenerateError
    \/ NewGenerateOk
    \/ NewWriteFile
    \/ NewFinish

SpecNew == InitNew /\ [][NextNew]_vars

(***************************************************************************)
(* ApiCommand::check_schemas: one action per outcome of a loop iteration   *)
(* and the summary after the loop.  success_count holds valid_count and    *)
(* results the line printed for each file.                                 *)
(***************************************************************************)
InitCheck ==
    /\ schema = EntitySchema(<<>>, <<>>)
    /\ out = [kind |-> "none"]
    /\ docs \in [FileNames -> DocPool]
    /\ unwritable = {}
    /\ files \in SeqsUpTo(FileNames, MaxFiles)
    /\ idx = 0
    /\ success_count = 0
    /\ error_count = 0
    /\ results = <<>>
    /\ disk = {}
    /\ clock = 0
    /\ ret = "running"
    /\ pc = "check"
    /\ attempts = <<>>
    /\ value = <<>>

InCheckLoop == pc = "check" /\ ret = "running" /\ idx < Len(files)

\* Ok(schema) of EntitySchema::from_yaml(path)
CheckValid ==
    /\ InCheckLoop
    /\ CurrentDoc.parses
    /\ success_count' = success_count + 1
    /\ results' = Append(results, <<CurrentFile, TRUE>>)
    /\ idx' = idx + 1
    /\ UNCHANGED <<cmdVars, schema, out, docs, unwritable, files, error_count,
                   disk, clock, ret>>

\* The Err arm when an invalid file ends the validation at once.
CheckInvalid_abort ==
    /\ InCheckLoop
    /\ ~CurrentDoc.parses
    /\ error_count' = error_count + 1
    /\ results' = Append(results, <<CurrentFile, FALSE>>)
    /\ idx' = idx + 1
    /\ ret' = "err"
    /\ UNCHANGED <<cmdVars, schema, out, docs, unwritable, files,
                   success_count, disk, clock>>

\* Err(e) of EntitySchema::from_yaml(path)
CheckInvalid ==
    /\ InCheckLoop
    /\ ~CurrentDoc.parses
    /\ error_count' = error_count + 1
    /\ results' = Append(results, <<CurrentFile, FALSE>>)
    /\ idx' = idx + 1
    /\ UNCHANGED <<cmdVars, schema, out, docs, unwritable, files,
                   success_count, disk, clock, ret>>

\* After the loop: bail! when error_count > 0, else Ok(()).
CheckFinish ==
    /\ pc = "check"
    /\ ret = "running"
    /\ idx = Len(files)
    /\ ret' = IF error_count > 0 THEN "err" ELSE "ok"
    /\ UNCHANGED <<cmdVars, schema, out, docs, unwritable, files, idx,
                   success_count, error_count, results, disk, clock>>

NextCheck ==
    \/ CheckValid
    \/ CheckInvalid
    \/ CheckFinish

SpecCheck == InitCheck /\ [][NextCheck]_vars

(***************************************************************************)
(* schema.rs: the type strings of a field.  Each action is one call of a   *)
(* Field method, or of into_context, on the i-th field of the schema.      *)
(***************************************************************************)
TypeEnumValuePool ==
    {None, Some(<<>>), Some(<<"draft">>), Some(<<"draft", "published">>),
     Some(<<"published", "draft">>), Some(<<"a", "b", "c">>),
     Some(<<"in progress", "done">>)}

ArrayTypePool ==
    {None, Some("string"), Some("number"), Some("boolean"), Some("uuid"),
     Some("json")}

ValidationPool ==
    {None, Some(Validation(None, None)), Some(Validation(Some(3), Some(120))),
     Some([Validation(None, Some(9)) EXCEPT !.email = TRUE])}

TypeFieldPool ==
    {Field("f", t) : t \in FieldType \ {"enum", "array"}}
      \cup {[Field("status", "enum") EXCEPT !.enum_values = ev]
              : ev \in TypeEnumValuePool}
      \cup {[Field("tags", "array") EXCEPT !.array_type = at]
              : at \in ArrayTypePool}
      \cup {[Field("title", "string") EXCEPT !.validation = v]
              : v \in ValidationPool}

TypeSchemas ==
    {EntitySchema(fs, <<>>) : fs \in SeqsUpTo(TypeFieldPool, MaxFields)}

InitTypes == InitContexts(TypeSchemas)

call_sql_type ==
    /\ ret = "idle"
    /\ \E i \in 1..Len(schema.fields) :
         out' = [kind |-> "sql_type", field |-> i,
                 value |-> sql_type(schema.fields[i])]
    /\ UNCHANGED <<schema, batchVars, cmdVars>>

call_typescript_type ==
    /\ ret = "idle"
    /\ \E i \in 1..Len(schema.fields) :
         out' = [kind |-> "typescript_type", field |-> i,
                 value |-> typescript_type(schema.fields[i])]
    /\ UNCHANGED <<schema, batchVars, cmdVars>>

call_zod_type ==
    /\ ret = "idle"
    /\ \E i \in 1..Len(schema.fields) :
         out' = [kind |-> "zod_type", field |-> i,
                 value |-> zod_type(schema.fields[i])]
    /\ UNCHANGED <<schema, batchVars, cmdVars>>

call_into_enum_context ==
    /\ ret = "idle"
    /\ \E i \in 1..Len(schema.fields) :
         out' = [kind |-> "enum_field_context", field |-> i,
                 value |-> EnumFieldContext(schema.fields[i])]
    /\ UNCHANGED <<schema, batchVars, cmdVars>>

NextTypes ==
    \/ call_sql_type
    \/ call_typescript_type
    \/ call_zod_type
    \/ call_into_enum_context

SpecTypes == InitTypes /\ [][NextTypes]_vars

(***************************************************************************)
(* schema.rs: EntitySchema::from_yaml.  A YAML document is modelled by the *)
(* keys it gives: an absent key is None, enumValues is a sequence of       *)
(* strings or another YAML value.  The keys tableName, operations, rls and *)
(* dbName are taken to be present and well-formed.  Deserialisation fails  *)
(* on a missing required key, an unknown field type or a value of the      *)
(* wrong YAML type, and fills the serde defaults otherwise.                *)
(***************************************************************************)
YamlSeq(items) == [kind |-> "sequence", items |-> items]
YamlScalar == [kind |-> "scalar", items |-> <<>>]

YamlField(name, type, enumValues) ==
    [name |-> name, type |-> type, enumValues |-> enumValues]

YamlFieldPool ==
    {YamlField(n, t, ev) :
        n \in {None, Some("status")},
        t \in {None, Some("enum"), Some("string"), Some("money")},
        ev \in {None, Some(YamlScalar), Some(YamlSeq(<<>>)),
                Some(YamlSeq(<<"draft">>)),
                Some(YamlSeq(<<"draft", "published">>))}}

YamlPool ==
    {[name |-> n, fields |-> fs] :
        n \in {None, Some("Post")}, fs \in SeqsUpTo(YamlFieldPool, MaxFields)}

\* serde's derived Deserialize for Field accepts the mapping y.
FieldDeserializes(y) ==
    /\ y.name # None
    /\ y.type # None
    /\ y.type[1] \in FieldType
    /\ y.enumValues # None => y.enumValues[1].kind = "sequence"

DeserializeField(y) ==
    [Field(y.name[1], y.type[1]) EXCEPT
        !.enum_values = IF y.enumValues = None THEN None
                        ELSE Some(y.enumValues[1].items)]

\* serde_yaml::from_str::<EntitySchema>(&content)
Deserializes(doc) ==
    /\ doc.name # None
    /\ \A i \in 1..Len(doc.fields) : FieldDeserializes(doc.fields[i])

InitLoad ==
    /\ schema = EntitySchema(<<>>, <<>>)
    /\ out = [kind |-> "none"]
    /\ docs \in [{"schema.yaml"} -> YamlPool]
    /\ unwritable = {}
    /\ files = <<"schema.yaml">>
    /\ idx = 0
    /\ success_count = 0
    /\ error_count = 0
    /\ results = <<>>
    /\ disk = {}
    /\ clock = 0
    /\ ret = "running"
    /\ pc = "load"
    /\ attempts = <<>>
    /\ value = <<>>

\* from_yaml returns Ok(schema)
from_yaml_Ok ==
    /\ pc = "load"
    /\ ret = "running"
    /\ Deserializes(docs[files[1]])
    /\ schema' =
         LET doc == docs[files[1]]
         IN  EntitySchema([i \in 1..Len(doc.fields) |-> DeserializeField(doc.fields[i])],
                          <<>>)
    /\ ret' = "ok"
    /\ UNCHANGED <<cmdVars, out, docs, unwritable, files, idx, success_count,
                   error_count, results, disk, clock>>

\* from_yaml returns the error of serde_yaml::from_str through `?`
from_yaml_Err ==
    /\ pc = "load"
    /\ ret = "running"
    /\ ~Deserializes(docs[files[1]])
    /\ ret' = "err"
    /\ UNCHANGED <<cmdVars, schema, out, docs, unwritable, files, idx,
                   success_count, error_count, results, disk, clock>>

NextLoad ==
    \/ from_yaml_Ok
    \/ from_yaml_Err

SpecLoad == InitLoad /\ [][NextLoad]_vars

(***************************************************************************)
(* schema.rs: the derived views of a schema.  Each action is one call of   *)
(* an EntitySchema method on the loaded schema.                            *)
(***************************************************************************)
DerivedFieldPool ==
    {[Field(n, t) EXCEPT !.primary_key = pk, !.index = ix] :
        n \in {"title", "userId", "createdAt", "updatedAt"},
        t \in {"string", "enum"}, pk \in BOOLEAN, ix \in BOOLEAN}

DerivedSchemas ==
    {EntitySchema(fs, <<>>) : fs \in SeqsUpTo(DerivedFieldPool, MaxFields)}

LookupNames == {"title", "userId", "createdAt", "slug"}

InitDerived == InitContexts(DerivedSchemas)

call_get_field ==
    /\ ret = "idle"
    /\ \E name \in LookupNames :
         out' = [kind |-> "get_field", name |-> name,
                 value |-> get_field(schema, name)]
    /\ UNCHANGED <<schema, batchVars, cmdVars>>

call_writable_fields ==
    /\ ret = "idle"
    /\ out' = [kind |-> "writable_fields", value |-> writable_fields(schema)]
    /\ UNCHANGED <<schema, batchVars, cmdVars>>

call_updatable_fields ==
    /\ ret = "idle"
    /\ out' = [kind |-> "updatable_fields", value |-> updatable_fields(schema)]
    /\ UNCHANGED <<schema, batchVars, cmdVars>>

call_indexed_fields ==
    /\ ret = "idle"
    /\ out' = [kind |-> "indexed_fields", value |-> indexed_fields(schema)]
    /\ UNCHANGED <<schema, batchVars, cmdVars>>

call_enum_fields ==
    /\ ret = "idle"
    /\ out' = [kind |-> "enum_fields", value |-> enum_fields(schema)]
    /\ UNCHANGED <<schema, batchVars, cmdVars>>

NextDerived ==
    \/ call_get_field
    \/ call_writable_fields
    \/ call_updatable_fields
    \/ call_indexed_fields
    \/ call_enum_fields

SpecDerived == InitDerived /\ [][NextDerived]_vars

(***************************************************************************)
(* templates/mod.rs: the text filters.  The argument is a minijinja Value: *)
(* a string, held as its sequence of characters, or a value of another     *)
(* kind.  The characters are ASCII letters, digits, '_' and '-', and two    *)
(* letters outside ASCII; next().unwrap() takes the first character of a   *)
(* character's upper or lower case form.                                   *)
(***************************************************************************)
LowercaseLetters ==
    <<"a", "b", "c", "d", "e", "f", "g", "h", "i", "j", "k", "l", "m", "n",
      "o", "p", "q", "r", "s", "t", "u", "v", "w", "x", "y", "z">>
UppercaseLetters ==
    <<"A", "B", "C", "D", "E", "F", "G", "H", "I", "J", "K", "L", "M", "N",
      "O", "P", "Q", "R", "S", "T", "U", "V", "W", "X", "Y", "Z">>

LetterIndex(c, letters) == CHOOSE i \in 1..Len(letters) : letters[i] = c

\* Two letters outside ASCII: U+1E9E, an uppercase letter whose lowercase is
\* U+00DF, and U+00DF, a lowercase letter whose uppercase is the two
\* characters SS.
CapitalSharpS == "ẞ"
SharpS == "ß"

\* char::is_uppercase
is_uppercase(c) == c \in Range(UppercaseLetters) \cup {CapitalSharpS}

\* char::to_lowercase: the characters a character maps to
char_to_lowercase(c) ==
    IF c \in Range(UppercaseLetters)
    THEN <<LowercaseLetters[LetterIndex(c, UppercaseLetters)]>>
    ELSE IF c = CapitalSharpS THEN <<SharpS>>
    ELSE <<c>>

\* char::to_uppercase: the characters a character maps to
char_to_uppercase(c) ==
    IF c \in Range(LowercaseLetters)
    THEN <<UppercaseLetters[LetterIndex(c, LowercaseLetters)]>>
    ELSE IF c = SharpS THEN <<"S", "S">>
    ELSE <<c>>

\* c.to_lowercase().next().unwrap()
to_lowercase(c) == Head(char_to_lowercase(c))

\* c.to_uppercase().next().unwrap()
to_uppercase(c) == Head(char_to_uppercase(c))

\* str::ends_with
ends_with(s, suffix) ==
    /\ Len(s) >= Len(suffix)
    /\ SubSeq(s, Len(s) - Len(suffix) + 1, Len(s)) = suffix

\* s.chars().enumerate().flat_map(..) from the i-th character on; the
\* first character has i = 1 here and index 0 in the code.
RECURSIVE snake_from(_, _)
snake_from(s, i) ==
    IF i > Len(s) THEN <<>>
    ELSE (IF is_uppercase(s[i]) /\ i > 1
          THEN <<"_", to_lowercase(s[i])>>
          ELSE <<to_lowercase(s[i])>>) \o snake_from(s, i + 1)

\* snake_case with an underscore before a leading uppercase letter too.
RECURSIVE snake_from_everyUppercase(_, _)
snake_from_everyUppercase(s, i) ==
    IF i > Len(s) THEN <<>>
    ELSE (IF is_uppercase(s[i])
          THEN <<"_", to_lowercase(s[i])>>
          ELSE <<to_lowercase(s[i])>>) \o snake_from_everyUppercase(s, i + 1)

snake_case_everyUppercase(s) == snake_from_everyUppercase(s, 1)

snake_case(s) == snake_from(s, 1)

\* The loop of camel_case from the i-th character on.
RECURSIVE camel_loop(_, _, _, _)
camel_loop(s, i, result, capitalize_next) ==
    IF i > Len(s) THEN result
    ELSE IF s[i] = "_" THEN camel_loop(s, i + 1, result, TRUE)
    ELSE IF capitalize_next
         THEN camel_loop(s, i + 1, Append(result, to_uppercase(s[i])), FALSE)
         ELSE camel_loop(s, i + 1, Append(result, s[i]), FALSE)

\* The loop when an underscore is copied to the result as well.
RECURSIVE camel_loop_keepUnderscore(_, _, _, _)
camel_loop_keepUnderscore(s, i, result, capitalize_next) ==
    IF i > Len(s) THEN result
    ELSE IF s[i] = "_"
         THEN camel_loop_keepUnderscore(s, i + 1, Append(result, "_"), TRUE)
    ELSE IF capitalize_next
         THEN camel_loop_keepUnderscore(s, i + 1,
                                        Append(result, to_uppercase(s[i])), FALSE)
         ELSE camel_loop_keepUnderscore(s, i + 1, Append(result, s[i]), FALSE)

camel_case_keepUnderscore(s) == camel_loop_keepUnderscore(s, 1, <<>>, FALSE)

\* The loop when capitalize_next is never reset.
RECURSIVE camel_loop_sticky(_, _, _, _)
camel_loop_sticky(s, i, result, capitalize_next) ==
    IF i > Len(s) THEN result
    ELSE IF s[i] = "_" THEN camel_loop_sticky(s, i + 1, result, TRUE)
    ELSE IF capitalize_next
         THEN camel_loop_sticky(s, i + 1, Append(result, to_uppercase(s[i])), TRUE)
         ELSE camel_loop_sticky(s, i + 1, Append(result, s[i]), FALSE)

camel_case_sticky(s) == camel_loop_sticky(s, 1, <<>>, FALSE)

camel_case(s) == camel_loop(s, 1, <<>>, FALSE)

pascal_case(s) ==
    LET camel == camel_case(s)
    IN  IF camel = <<>> THEN <<>>
        ELSE <<to_uppercase(Head(camel))>> \o Tail(camel)

\* snake.replace('_', "-")
kebab_case(s) ==
    LET snake == snake_case(s)
    IN  [i \in 1..Len(snake) |-> IF snake[i] = "_" THEN "-" ELSE snake[i]]

\* singular when the "ies" rule comes after the plain "s" rule.
singular_plainFirst(s) ==
    IF ends_with(s, <<"s">>) THEN SubSeq(s, 1, Len(s) - 1)
    ELSE s

singular(s) ==
    IF ends_with(s, <<"i", "e", "s">>)
    THEN SubSeq(s, 1, Len(s) - 3) \o <<"y">>
    ELSE IF \/ ends_with(s, <<"s", "e", "s">>)
            \/ ends_with(s, <<"z", "e", "s">>)
            \/ ends_with(s, <<"x", "e", "s">>)
    THEN SubSeq(s, 1, Len(s) - 2)
    ELSE IF ends_with(s, <<"s">>) THEN SubSeq(s, 1, Len(s) - 1)
    ELSE s

\* s.to_uppercase() and s.to_lowercase()
RECURSIVE upper(_)
upper(s) ==
    IF s = <<>> THEN <<>> ELSE char_to_uppercase(Head(s)) \o upper(Tail(s))

RECURSIVE lower(_)
lower(s) ==
    IF s = <<>> THEN <<>> ELSE char_to_lowercase(Head(s)) \o lower(Tail(s))

\* value.as_str()
StringValue(chars) == [kind |-> "string", chars |-> chars]
NumberValue == [kind |-> "number", chars |-> <<>>]

CaseAlphabet == {"a", "A", "B", "_", "-", "1"}
PluralAlphabet == {"i", "e", "s", "x", "z", "c"}

Identifiers ==
    {<<"U", "s", "e", "r", "P", "r", "o", "f", "i", "l", "e">>,
     <<"u", "s", "e", "r", "I", "d">>,
     <<"u", "s", "e", "r", "_", "i", "d">>,
     <<"u", "s", "e", "r", "_", "p", "r", "o", "f", "i", "l", "e">>,
     <<"c", "a", "t", "e", "g", "o", "r", "i", "e", "s">>,
     <<"b", "o", "x", "e", "s">>,
     <<"c", "a", "t">>,
     <<"m", "a", CapitalSharpS>>,
     <<"m", "a", "_", SharpS>>}

ValuePool ==
    {NumberValue}
      \cup {StringValue(w) : w \in SeqsUpTo(CaseAlphabet, MaxStr)}
      \cup {StringValue(w) : w \in SeqsUpTo(PluralAlphabet, MaxStr)}
      \cup {StringValue(w) : w \in Identifiers}

InitFilters ==
    /\ schema = EntitySchema(<<>>, <<>>)
    /\ out = [kind |-> "none"]
    /\ NoBatch
    /\ value \in ValuePool

\* What a filter returns: Ok(Value::from(result)), or the error of
\* value.as_str().ok_or_else(..)? when the value is not a string.
FilterOk(filter, result) == [kind |-> filter, ok |-> TRUE, value |-> result]
FilterErr(filter) == [kind |-> filter, ok |-> FALSE, value |-> <<>>]

filter_snake_case ==
    /\ ret = "idle"
    /\ out' = IF value.kind = "string"
              THEN FilterOk("snake_case", snake_case(value.chars))
              ELSE FilterErr("snake_case")
    /\ UNCHANGED <<schema, batchVars, cmdVars>>

filter_camel_case ==
    /\ ret = "idle"
    /\ out' = IF value.kind = "string"
              THEN FilterOk("camel_case", camel_case(value.chars))
              ELSE FilterErr("camel_case")
    /\ UNCHANGED <<schema, batchVars, cmdVars>>

filter_pascal_case ==
    /\ ret = "idle"
    /\ out' = IF value.kind = "string"
              THEN FilterOk("pascal_case", pascal_case(value.chars))
              ELSE FilterErr("pascal_case")
    /\ UNCHANGED <<schema, batchVars, cmdVars>>

filter_kebab_case ==
    /\ ret = "idle"
    /\ out' = IF value.kind = "string"
              THEN FilterOk("kebab_case", kebab_case(value.chars))
              ELSE FilterErr("kebab_case")
    /\ UNCHANGED <<schema, batchVars, cmdVars>>

\* singular when the empty string is rejected like a non-string.
filter_singular_rejectsEmpty ==
    /\ ret = "idle"
    /\ out' = IF value.kind = "string" /\ value.chars # <<>>
              THEN FilterOk("singular", singular(value.chars))
              ELSE FilterErr("singular")
    /\ UNCHANGED <<schema, batchVars, cmdVars>>

filter_singular ==
    /\ ret = "idle"
    /\ out' = IF value.kind = "string"
              THEN FilterOk("singular", singular(value.chars))
              ELSE FilterErr("singular")
    /\ UNCHANGED <<schema, batchVars, cmdVars>>

filter_upper ==
    /\ ret = "idle"
    /\ out' = IF value.kind = "string"
              THEN FilterOk("upper", upper(value.chars))
              ELSE FilterErr("upper")
    /\ UNCHANGED <<schema, batchVars, cmdVars>>

filter_lower ==
    /\ ret = "idle"
    /\ out' = IF value.kind = "string"
              THEN FilterOk("lower", lower(value.chars))
              ELSE FilterErr("lower")
    /\ UNCHANGED <<schema, batchVars, cmdVars>>

NextFilters ==
    \/ filter_snake_case
    \/ filter_camel_case
    \/ filter_pascal_case
    \/ filter_kebab_case
    \/ filter_singular
    \/ filter_upper
    \/ filter_lower

SpecFilters == InitFilters /\ [][NextFilters]_vars

(***************************************************************************)
(* generator.rs: the text of the output paths.  The project root is fixed; *)
(* the clock counts the seconds after an instant whose local time is       *)
(* 2024-01-01 00:00:00.  Each generate_all call is recorded in results     *)
(* with the time it read and the ten paths it computed.                    *)
(***************************************************************************)
project_root == "/project"

\* PathBuf::join of a relative component
path_join(base, component) == base \o "/" \o component

\* chrono::Local::now().format("%Y%m%d%H%M%S")
timestamp(now) ==
    "202401010000" \o (IF now < 10 THEN "0" \o to_string(now) ELSE to_string(now))

\* The paths when the migration's file is named after the entity.
output_path_migrationByName(a, doc, now) ==
    CASE a = "migration" ->
             path_join(path_join(project_root, "supabase/migrations"),
                       timestamp(now) \o "_create_" \o doc.name \o "_table.sql")
      [] a = "zod_schema" ->
             path_join(path_join(path_join(project_root, "supabase/functions"),
                                 doc.table_name \o "-crud"), "schema.ts")
      [] a = "repository_edge" ->
             path_join(path_join(project_root,
                                 "supabase/functions/_shared/repositories"),
                       doc.name \o "Repository.ts")
      [] a = "edge_function" ->
             path_join(path_join(path_join(project_root, "supabase/functions"),
                                 doc.table_name \o "-crud"), "index.ts")
      [] a = "model" ->
             path_join(path_join(project_root, "packages/app-frontend/src/models"),
                       doc.name \o ".ts")
      [] a = "service" ->
             path_join(path_join(project_root, "packages/app-frontend/src/services"),
                       doc.name \o "Service.ts")
      [] a = "hook" ->
             path_join(path_join(project_root, "packages/app-frontend/src/hooks"),
                       "use" \o doc.name \o "s.ts")
      [] a = "admin_page" ->
             path_join(path_join(project_root,
                                 "packages/app-frontend/src/pages/admin/entities"),
                       doc.name \o "AdminPage.tsx")
      [] a = "demo_component" ->
             path_join(path_join(path_join(project_root,
                                           "packages/app-frontend/src/components/features"),
                                 doc.table_name), doc.name \o "sDemo.tsx")
      [] a = "cli_client" ->
             path_join(path_join(project_root, "packages/app-cli/clients"),
                       doc.name \o "sClient.js")

\* CodeGenerator::generate_*: the path of each GeneratedFile.
output_path(a, doc, now) ==
    CASE a = "migration" ->
             path_join(path_join(project_root, "supabase/migrations"),
                       timestamp(now) \o "_create_" \o doc.table_name \o "_table.sql")
      [] a = "zod_schema" ->
             path_join(path_join(path_join(project_root, "supabase/functions"),
                                 doc.table_name \o "-crud"), "schema.ts")
      [] a = "repository_edge" ->
             path_join(path_join(project_root,
                                 "supabase/functions/_shared/repositories"),
                       doc.name \o "Repository.ts")
      [] a = "edge_function" ->
             path_join(path_join(path_join(project_root, "supabase/functions"),
                                 doc.table_name \o "-crud"), "index.ts")
      [] a = "model" ->
             path_join(path_join(project_root, "packages/app-frontend/src/models"),
                       doc.name \o ".ts")
      [] a = "service" ->
             path_join(path_join(project_root, "packages/app-frontend/src/services"),
                       doc.name \o "Service.ts")
      [] a = "hook" ->
             path_join(path_join(project_root, "packages/app-frontend/src/hooks"),
                       "use" \o doc.name \o "s.ts")
      [] a = "admin_page" ->
             path_join(path_join(project_root,
                                 "packages/app-frontend/src/pages/admin/entities"),
                       doc.name \o "AdminPage.tsx")
      [] a = "demo_component" ->
             path_join(path_join(path_join(project_root,
                                           "packages/app-frontend/src/components/features"),
                                 doc.table_name), doc.name \o "sDemo.tsx")
      [] a = "cli_client" ->
             path_join(path_join(project_root, "packages/app-cli/clients"),
                       doc.name \o "sClient.js")

InitPaths ==
    /\ schema = EntitySchema(<<>>, <<>>)
    /\ out = [kind |-> "none"]
    /\ docs \in [FileNames -> {d \in DocPool : d.parses}]
    /\ unwritable = {}
    /\ files \in {Some(f) : f \in FileNames}
    /\ idx = 0
    /\ success_count = 0
    /\ error_count = 0
    /\ results = <<>>
    /\ disk = {}
    /\ clock = 0
    /\ ret = "running"
    /\ pc = "paths"
    /\ attempts = <<>>
    /\ value = <<>>

\* generate_all returns Ok(GeneratedFiles { .. }): the local time is read
\* once, by generate_migration.
generate_all_Ok ==
    /\ pc = "paths"
    /\ ret = "running"
    /\ Len(results) < MaxCalls
    /\ NewDoc.renders
    /\ \E now \in clock..MaxClock :
         /\ clock' = now
         /\ results' = Append(results,
               [now |-> now,
                paths |-> [i \in 1..Len(Artifacts) |->
                              output_path(Artifacts[i], NewDoc, now)]])
    /\ UNCHANGED <<cmdVars, schema, out, docs, unwritable, files, idx,
                   success_count, error_count, disk, ret>>

\* a render fails: generate_all returns its error through `?`
generate_all_Err ==
    /\ pc = "paths"
    /\ ret = "running"
    /\ ~NewDoc.renders
    /\ ret' = "err"
    /\ UNCHANGED <<cmdVars, schema, out, docs, unwritable, files, idx,
                   success_count, error_count, results, disk, clock>>

NextPaths ==
    \/ generate_all_Ok
    \/ generate_all_Err

SpecPaths == InitPaths /\ [][NextPaths]_vars

(***************************************************************************)
(* generator.rs: ZodSchemaContext, which builds its operations with its    *)
(* own code; the operation's type is the lower-cased Debug text of the     *)
(* variant.                                                                *)
(***************************************************************************)
\* .collect::<String>() of characters
RECURSIVE collect_string(_)
collect_string(chars) ==
    IF chars = <<>> THEN "" ELSE Head(chars) \o collect_string(Tail(chars))

ZodFieldContext(f) ==
    [name |-> f.name, zod_type |-> zod_type(f), required |-> f.required,
     enum_values |-> f.enum_values]

zod_fields_to_context(fs) == [i \in 1..Len(fs) |-> ZodFieldContext(fs[i])]

\* The validation-schema context whose op_type keeps the Debug text as it is.
ZodSchemaContext_debugOpType(s) ==
    LET enum_field_names == {f.name : f \in Range(enum_fields(s))}
        Keep(n) == n \notin enum_field_names
        Ctx(op) == [op_type |-> collect_string(OperationType_debug(op.op_type)),
                    name |-> op.name, description |-> op.description,
                    filters |-> SelectSeq(op.filters, Keep),
                    limit |-> op.limit]
    IN  [kind |-> "zod_schema",
         fields |-> zod_fields_to_context(s.fields),
         enum_fields |-> zod_fields_to_context(enum_fields(s)),
         writable_fields |-> zod_fields_to_context(writable_fields(s)),
         updatable_fields |-> zod_fields_to_context(updatable_fields(s)),
         operations |-> [i \in 1..Len(s.operations) |-> Ctx(s.operations[i])]]

ZodSchemaContext_from_schema(s) ==
    LET enum_field_names == {f.name : f \in Range(enum_fields(s))}
        Keep(n) == n \notin enum_field_names
        Ctx(op) == [op_type |-> collect_string(lower(OperationType_debug(op.op_type))),
                    name |-> op.name, description |-> op.description,
                    filters |-> SelectSeq(op.filters, Keep),
                    limit |-> op.limit]
    IN  [kind |-> "zod_schema",
         fields |-> zod_fields_to_context(s.fields),
         enum_fields |-> zod_fields_to_context(enum_fields(s)),
         writable_fields |-> zod_fields_to_context(writable_fields(s)),
         updatable_fields |-> zod_fields_to_context(updatable_fields(s)),
         operations |-> [i \in 1..Len(s.operations) |-> Ctx(s.operations[i])]]

\* Operations of every type, with and without description and limit.
ZodOpPool ==
    {[Operation(t, IF t = "custom" THEN Some("my") ELSE None, m[1])
         EXCEPT !.description = m[2], !.limit = m[3]]
       : t \in OperationType,
         m \in {<<<<>>, None, None>>,
                <<<<"type", "title", "type">>, Some("newest first"), Some(50)>>}}

ZodFieldPool ==
    {[Field("type", t) EXCEPT !.enum_values =
          IF t = "enum" THEN Some(<<"video", "image">>) ELSE None]
       : t \in {"enum", "string"}}

ZodSchemas ==
    {EntitySchema(fs, ops) : fs \in SeqsUpTo(ZodFieldPool, MaxFields),
                             ops \in SeqsUpTo(ZodOpPool, MaxOps)}

InitZod == InitContexts(ZodSchemas)

generate_zod_schema ==
    /\ ret = "idle"
    /\ out' = ZodSchemaContext_from_schema(schema)
    /\ UNCHANGED <<schema, batchVars, cmdVars>>

NextZod ==
    \/ generate_zod_schema
    \/ generate_hook

SpecZod == InitZod /\ [][NextZod]_vars

(***************************************************************************)
(* generator_contexts.rs: RepositoryEdgeContext, the data-access context.  *)
(***************************************************************************)
\* for filter in names { if !acc.contains(filter) { acc.push(filter) } }
RECURSIVE push_missing(_, _)
push_missing(acc, names) ==
    IF names = <<>> THEN acc
    ELSE push_missing(IF Head(names) \in Range(acc) THEN acc
                      ELSE Append(acc, Head(names)),
                      Tail(names))

\* for op in &schema.operations { for filter in &op.filters { .. } }
RECURSIVE push_missing_of_operations(_, _)
push_missing_of_operations(acc, ops) ==
    IF ops = <<>> THEN acc
    ELSE push_missing_of_operations(push_missing(acc, Head(ops).filters),
                                    Tail(ops))

\* .find(|op| op.op_type == OperationType::List).map(filters).unwrap_or_default()
RECURSIVE list_filters(_)
list_filters(ops) ==
    IF ops = <<>> THEN <<>>
    ELSE IF Head(ops).op_type = "list" THEN Head(ops).filters
    ELSE list_filters(Tail(ops))

RepositoryEdgeContext_from_schema(s) ==
    LET IsCustom(op) == op.op_type = "custom"
        customs == SelectSeq(s.operations, IsCustom)
        CustomOpContext(op) ==
            [name |-> IF op.name = None THEN "" ELSE op.name[1],
             description |-> op.description,
             filters |-> op.filters, limit |-> op.limit]
    IN  [kind |-> "repository_edge",
         fields |-> fields_to_context(s.fields),
         writable_fields |-> fields_to_context(writable_fields(s)),
         updatable_fields |-> fields_to_context(updatable_fields(s)),
         list_filters |-> list_filters(s.operations),
         all_filters |-> push_missing_of_operations(list_filters(s.operations),
                                                    s.operations),
         custom_operations |->
             [i \in 1..Len(customs) |-> CustomOpContext(customs[i])]]

\* Filter lists of the data-access family; a list may name a field twice.
RepositoryFilterPool ==
    {<<>>, <<"type">>, <<"title", "type">>, <<"type", "type">>}

RepositoryOpPool ==
    {Operation(t, IF t = "custom" THEN Some("my") ELSE None, fl)
       : t \in {"list", "get", "custom"}, fl \in RepositoryFilterPool}

RepositorySchemas ==
    {EntitySchema(fs, ops) : fs \in SeqsUpTo(ZodFieldPool, MaxFields),
                             ops \in SeqsUpTo(RepositoryOpPool, MaxOps)}

InitRepository == InitContexts(RepositorySchemas)

generate_repository_edge ==
    /\ ret = "idle"
    /\ out' = RepositoryEdgeContext_from_schema(schema)
    /\ UNCHANGED <<schema, batchVars, cmdVars>>

NextRepository ==
    \/ generate_repository_edge
    \/ generate_edge_function

SpecRepository == InitRepository /\ [][NextRepository]_vars

(***************************************************************************)
(* generate_all step by step, in generate_new and in the loop body of      *)
(* generate_batch: each generate_*()? renders one artifact into memory     *)
(* (out.files); write_to_disk runs on the GeneratedFiles it returned.      *)
(* pc tells the mode and the phase.                                        *)
(***************************************************************************)
RenderDocPool ==
    {[parses |-> TRUE, name |-> n, table_name |-> "posts", renders |-> r]
       : n \in {"Post", "Tag"}, r \in BOOLEAN}

RenderUnwritablePool == {Location("model", d) : d \in RenderDocPool}

InitRender ==
    /\ schema = EntitySchema(<<>>, <<>>)
    /\ out = [kind |-> "rendered", files |-> <<>>]
    /\ docs \in [FileNames -> RenderDocPool]
    /\ unwritable \in {u \in SUBSET RenderUnwritablePool :
                           Cardinality(u) <= MaxUnwritable}
    /\ \/ /\ pc = "new_generate"
          /\ files \in {Some(f) : f \in FileNames}
       \/ /\ pc = "batch_generate"
          /\ files \in SeqsUpTo(FileNames, MaxFiles)
    /\ idx = 0
    /\ success_count = 0
    /\ error_count = 0
    /\ results = <<>>
    /\ disk = {}
    /\ clock = 0
    /\ ret = "running"
    /\ attempts = <<>>
    /\ value = <<>>

\* The document of the entity being generated.
RenderDoc == docs[files[idx + 1]]

Generating == /\ ret = "running"
              /\ pc \in {"new_generate", "batch_generate"}
              /\ idx < Len(files)

\* The phase after the tenth generate_*()? returned Ok.
WritePhase == IF pc = "new_generate" THEN "new_write" ELSE "batch_write"

\* A generate_*()? that writes its file as soon as it is rendered.
RenderArtifact_writeThrough ==
    /\ Generating
    /\ Len(out.files) < Len(Artifacts)
    /\ IF RenderDoc.renders THEN TRUE ELSE Len(out.files) < Len(Artifacts) - 1
    /\ \E now \in clock..MaxClock :
         LET file == GeneratedFile(Artifacts[Len(out.files) + 1], RenderDoc, now)
         IN  /\ IF out.files = <<>> THEN TRUE ELSE now = clock
             /\ clock' = now
             /\ out' = [out EXCEPT !.files = Append(@, file)]
             /\ disk' = IF file.loc \in unwritable THEN disk
                        ELSE write_file(disk, file)
    /\ pc' = IF Len(out.files) + 1 = Len(Artifacts) THEN WritePhase ELSE pc
    /\ UNCHANGED <<schema, docs, unwritable, files, idx, success_count,
                   error_count, results, ret, attempts, value>>

\* The next generate_*()? of generate_all returns Ok: the artifact is held
\* in memory.  generate_migration, the first, reads the local time.
RenderArtifact ==
    /\ Generating
    /\ Len(out.files) < Len(Artifacts)
    /\ IF RenderDoc.renders THEN TRUE ELSE Len(out.files) < Len(Artifacts) - 1
    /\ \E now \in clock..MaxClock :
         LET file == GeneratedFile(Artifacts[Len(out.files) + 1], RenderDoc, now)
         IN  /\ IF out.files = <<>> THEN TRUE ELSE now = clock
             /\ clock' = now
             /\ out' = [out EXCEPT !.files = Append(@, file)]
    /\ pc' = IF Len(out.files) + 1 = Len(Artifacts) THEN WritePhase ELSE pc
    /\ UNCHANGED <<schema, docs, unwritable, files, idx, success_count,
                   error_count, results, disk, ret, attempts, value>>

\* generate_new: the next generate_*()? fails; generate_all()? returns it.
NewRenderError ==
    /\ Generating
    /\ pc = "new_generate"
    /\ ~RenderDoc.renders
    /\ Len(out.files) < Len(Artifacts)
    /\ ret' = "err"
    /\ pc' = "done"
    /\ UNCHANGED <<schema, out, docs, unwritable, files, idx, success_count,
                   error_count, results, disk, clock, attempts, value>>

\* generate_new: files.write_to_disk()?, then Ok(()).
NewWriteToDisk ==
    /\ pc = "new_write"
    /\ LET w == write_to_disk(disk, out.files, unwritable)
       IN  /\ disk' = w.disk
           /\ ret' = IF w.ok THEN "ok" ELSE "err"
    /\ pc' = "done"
    /\ UNCHANGED <<schema, out, docs, unwritable, files, idx, success_count,
                   error_count, results, clock, attempts, value>>

\* generate_batch: Err(e) of generator.generate_all(); the loop goes on.
BatchRenderError ==
    /\ Generating
    /\ pc = "batch_generate"
    /\ ~RenderDoc.renders
    /\ Len(out.files) < Len(Artifacts)
    /\ error_count' = error_count + 1
    /\ results' = Append(results, <<RenderDoc.name, FALSE, "render">>)
    /\ idx' = idx + 1
    /\ out' = [out EXCEPT !.files = <<>>]
    /\ UNCHANGED <<schema, docs, unwritable, files, success_count, disk,
                   clock, ret, pc, attempts, value>>

\* generate_batch: Ok(generated_files), then its write_to_disk().
BatchWriteToDisk ==
    /\ pc = "batch_write"
    /\ LET w == write_to_disk(disk, out.files, unwritable)
       IN  /\ disk' = w.disk
           /\ IF w.ok
              THEN /\ success_count' = success_count + 1
                   /\ error_count' = error_count
                   /\ results' = Append(results, <<RenderDoc.name, TRUE, "OK">>)
              ELSE /\ error_count' = error_count + 1
                   /\ success_count' = success_count
                   /\ results' = Append(results, <<RenderDoc.name, FALSE, "write">>)
    /\ idx' = idx + 1
    /\ out' = [out EXCEPT !.files = <<>>]
    /\ pc' = "batch_generate"
    /\ UNCHANGED <<schema, docs, unwritable, files, clock, ret, attempts, value>>

\* generate_batch after the loop.
BatchRenderFinish ==
    /\ ret = "running"
    /\ pc = "batch_generate"
    /\ idx = Len(files)
    /\ ret' = IF error_count > 0 THEN "err" ELSE "ok"
    /\ pc' = "done"
    /\ UNCHANGED <<schema, out, docs, unwritable, files, idx, success_count,
                   error_count, results, disk, clock, attempts, value>>

NextRender ==
    \/ RenderArtifact
    \/ NewRenderError
    \/ NewWriteToDisk
    \/ BatchRenderError
    \/ BatchWriteToDisk
    \/ BatchRenderFinish

SpecRender == InitRender /\ [][NextRender]_vars

(***************************************************************************)
(* Schemas whose fields carry a default.  A default's text is the          *)
(* concatenation of its tokens: <<"NOW", "HERE">> is the text NOWHERE.     *)
(***************************************************************************)
DefaultPool ==
    {None, Some(<<"draft">>), Some(<<"'", "draft", "'">>),
     Some(<<"NOW", "()">>), Some(<<"NOW", "HERE">>),
     Some(<<"gen_random_uuid", "()">>)}

DefaultFieldPool ==
    {[Field("status", t) EXCEPT
          !.default = d, !.index = ix,
          !.enum_values = IF t = "enum" THEN Some(<<"draft", "live">>) ELSE None]
       : t \in {"enum", "string", "integer"}, d \in DefaultPool, ix \in BOOLEAN}

DefaultSchemas ==
    {EntitySchema(fs, <<>>) : fs \in SeqsUpTo(DefaultFieldPool, MaxFields)}

InitDefaults == InitContexts(DefaultSchemas)

NextDefaults ==
    \/ generate_migration
    \/ generate_zod_schema

SpecDefaults == InitDefaults /\ [][NextDefaults]_vars

(***************************************************************************)
(* Properties.  Helpers state "r is f with some positions removed, the     *)
(* rest in order" by positions, independently of SelectSeq.                *)
(***************************************************************************)
NthOf(S, k) == CHOOSE j \in S : Cardinality({x \in S : x < j}) = k - 1

KeptAt(r, f, keep) ==
    /\ Len(r) = Cardinality(keep)
    /\ \A k \in 1..Len(r) : r[k] = f[NthOf(keep, k)]

EnumPositions == {j \in 1..Len(schema.fields) : schema.fields[j].field_type = "enum"}
EnumNames == {schema.fields[j].name : j \in EnumPositions}

\* C1: every operation of the hook context has filters free of enum field
\* names, the other filter names stay in declared order, no operation is
\* dropped, and enum_fields lists every Enum-typed field.
C1_HookFiltersExcludeEnumFields ==
    out.kind = "hook" =>
        /\ Len(out.operations) = Len(schema.operations)
        /\ \A i \in 1..Len(out.operations) :
             LET f == schema.operations[i].filters
                 r == out.operations[i].filters
             IN  /\ Range(r) \cap EnumNames = {}
                 /\ KeptAt(r, f, {j \in 1..Len(f) : f[j] \notin EnumNames})
                 /\ out.operations[i].op_type = schema.operations[i].op_type
                 /\ out.operations[i].name = schema.operations[i].name
        /\ KeptAt(Names(out.enum_fields), Names(schema.fields), EnumPositions)

C1_Witness ==
    /\ out.kind = "hook"
    /\ Len(schema.operations) = 2
    /\ "type" \in EnumNames
    /\ "title" \notin EnumNames
    /\ schema.operations[2].filters = <<"userId", "type", "title">>
    /\ out.operations[2].filters = <<"userId", "title">>

\* C2: every operation of the command-line-client context has filters free
\* of enum field names, as in the hook context.
C2_CLIFiltersExcludeEnumFields ==
    out.kind = "cli_client" =>
        \A i \in 1..Len(out.operations) :
            Range(out.operations[i].filters) \cap EnumNames = {}

\* C3: the service and the endpoint context carry, entry by entry, exactly
\* the declared filters of each operation, enum field names included.
C3_ServiceAndEdgeKeepFilters ==
    out.kind \in {"service", "edge_function"} =>
        /\ Len(out.operations) = Len(schema.operations)
        /\ \A i \in 1..Len(out.operations) :
             out.operations[i].filters = schema.operations[i].filters

C3_Witness ==
    /\ out.kind = "service"
    /\ \E i \in 1..Len(out.operations) :
         /\ Range(schema.operations[i].filters) \cap EnumNames # {}
         /\ Len(out.operations[i].filters) = 3

\* Names of the declared operations of type Custom / of any type.
CustomOpNames ==
    {o.name[1] : o \in {x \in Range(schema.operations) :
                            x.op_type = "custom" /\ x.name # None}}
AnyOpNames ==
    {o.name[1] : o \in {x \in Range(schema.operations) : x.name # None}}

ValuesOf(j) == unwrap_or_default(schema.fields[j].enum_values, <<>>)

\* Enum fields with a value at index >= 1 naming a Custom operation.
CustomConflictPositions ==
    {j \in EnumPositions : \E i \in 2..Len(ValuesOf(j)) : ValuesOf(j)[i] \in CustomOpNames}
\* Enum fields none of whose values at index >= 1 names any operation.
NoMatchPositions ==
    {j \in EnumPositions : \A i \in 2..Len(ValuesOf(j)) : ValuesOf(j)[i] \notin AnyOpNames}

\* C4: the command-line-client context omits every enum field with a value
\* at index >= 1 equal to a Custom operation's name, and keeps a field whose
\* only match is the value at index 0.
C4_CLIEnumFieldsOmitConflicts ==
    out.kind = "cli_client" =>
        \E m \in [1..Len(out.enum_fields) -> EnumPositions \ CustomConflictPositions] :
            /\ \A a, b \in DOMAIN m : a < b => m[a] < m[b]
            /\ \A k \in DOMAIN m :
                 /\ out.enum_fields[k].name = schema.fields[m[k]].name
                 /\ out.enum_fields[k].enum_values = ValuesOf(m[k])
            /\ NoMatchPositions \subseteq Range(m)

C4_Witness ==
    /\ out.kind = "cli_client"
    /\ Len(schema.fields) = 2
    /\ schema.fields[1].enum_values = Some(<<"draft", "published">>)
    /\ schema.fields[2].enum_values = Some(<<"published", "draft">>)
    /\ CustomOpNames = {"published"}
    /\ AnyOpNames = {"published"}
    /\ Len(out.enum_fields) = 1
    /\ out.enum_fields[1].enum_values = <<"published", "draft">>

\* C5: writable_fields holds no primary key and no createdAt / updatedAt;
\* updatable_fields is writable_fields without the fields named userId.
C5_WritableAndUpdatable ==
    out.kind \in {"service", "hook", "cli_client"} =>
        LET w == writable_fields(schema)
            u == updatable_fields(schema)
        IN  /\ \A i \in 1..Len(w) :
                 /\ ~w[i].primary_key
                 /\ w[i].name \notin {"createdAt", "updatedAt"}
            /\ Range(u) \subseteq Range(w)
            /\ KeptAt(u, w, {i \in 1..Len(w) : w[i].name # "userId"})
            /\ Names(out.writable_fields) = Names(w)
            /\ Names(out.updatable_fields) = Names(u)
            /\ \A i \in 1..Len(schema.fields) :
                 LET f == schema.fields[i]
                 IN  (~f.primary_key /\ f.name \notin {"createdAt", "updatedAt"})
                         => f \in Range(w)

C5_Witness ==
    /\ out.kind = "service"
    /\ Len(schema.fields) = 2
    /\ schema.fields[1].name = "userId" /\ ~schema.fields[1].primary_key
    /\ schema.fields[2].name = "title" /\ ~schema.fields[2].primary_key
    /\ Names(out.writable_fields) = <<"userId", "title">>
    /\ Names(out.updatable_fields) = <<"title">>

IndexedPositions == {j \in 1..Len(schema.fields) : schema.fields[j].index}

\* C6: the migration's fields are id, userId, the declared fields in schema
\* order, createdAt, updatedAt; its indexed_fields are userId followed by
\* the declared fields flagged index, in schema order.
C6_MigrationFieldOrder ==
    out.kind = "migration" =>
        /\ Names(out.fields) =
               <<"id", "userId">> \o Names(schema.fields)
                   \o <<"createdAt", "updatedAt">>
        /\ Range(Names(out.indexed_fields)) =
               {"userId"} \cup {schema.fields[j].name : j \in IndexedPositions}
        /\ Len(out.indexed_fields) >= 1
        /\ out.indexed_fields[1].name = "userId"
        /\ KeptAt(Tail(Names(out.indexed_fields)), Names(schema.fields),
                  IndexedPositions)

C6_Witness ==
    /\ out.kind = "migration"
    /\ Len(schema.fields) = 2
    /\ schema.fields[1].name = "title" /\ ~schema.fields[1].index
    /\ schema.fields[2].name = "id" /\ schema.fields[2].index
    /\ Names(out.indexed_fields) = <<"userId", "id">>

StandardNames == {"id", "userId", "createdAt", "updatedAt"}

\* C7: the migration always has len(schema.fields) + 4 fields, the four
\* standard ones included even when the schema declares one of their names,
\* which then appears twice.
C7_MigrationAlwaysAddsStandardFields ==
    out.kind = "migration" =>
        LET n == Len(out.fields)
        IN  /\ n = Len(schema.fields) + 4
            /\ out.fields[1].name = "id" /\ out.fields[1].primary_key
            /\ out.fields[2].name = "userId"
            /\ out.fields[n - 1].name = "createdAt"
            /\ out.fields[n].name = "updatedAt"
            /\ \A j \in 1..Len(schema.fields) :
                 schema.fields[j].name \in StandardNames =>
                     \E a, b \in 1..n :
                         /\ a # b
                         /\ out.fields[a].name = schema.fields[j].name
                         /\ out.fields[b].name = schema.fields[j].name

C7_Witness ==
    /\ out.kind = "migration"
    /\ Len(schema.fields) = 1
    /\ schema.fields[1].name = "id"
    /\ Names(out.fields) = <<"id", "userId", "id", "createdAt", "updatedAt">>

(***************************************************************************)
(* Properties of the batch loop and of the emission of one entity.         *)
(***************************************************************************)
DocAt(j) == docs[files[j]]

BadArtifacts(doc) ==
    {i \in 1..Len(Artifacts) : Location(Artifacts[i], doc) \in unwritable}

\* The file at position j fails at parsing, generation or writing.
Fails(j) ==
    \/ ~DocAt(j).parses
    \/ ~DocAt(j).renders
    \/ BadArtifacts(DocAt(j)) # {}

MalformedPositions == {j \in 1..Len(files) : ~DocAt(j).parses}

\* Exactly one input file is malformed and nothing else goes wrong.
OneMalformed ==
    /\ Cardinality(MalformedPositions) = 1
    /\ \A j \in 1..Len(files) : j \notin MalformedPositions => ~Fails(j)

OnDisk(a, doc) == \E e \in disk : e.loc = Location(a, doc)

\* C8: a failing file never stops the batch loop; with exactly one
\* malformed file among N, the other N-1 artifact sets are written, the
\* ledger names the malformed file as failed and the command fails.
C8_BatchIsolatesFailures ==
    /\ Len(results) = idx
    /\ ret \in {"ok", "err"} => idx = Len(files)
    /\ (ret \in {"ok", "err"} /\ OneMalformed) =>
           /\ ret = "err"
           /\ success_count = Len(files) - 1
           /\ error_count = 1
           /\ \A j \in 1..Len(files) :
                IF j \in MalformedPositions
                THEN results[j][1] = files[j] /\ results[j][2] = FALSE
                ELSE /\ results[j][2] = TRUE
                     /\ \A i \in 1..Len(Artifacts) : OnDisk(Artifacts[i], DocAt(j))

C8_Witness ==
    /\ ret = "err"
    /\ Len(files) = 2
    /\ OneMalformed
    /\ MalformedPositions = {1}
    /\ results[1] = <<files[1], FALSE, "parse">>
    /\ success_count = 1
    /\ OnDisk("cli_client", DocAt(2))

\* C9: generate_batch returns an error exactly when at least one input
\* file failed at parsing, generation or writing.
C9_BatchErrIffSomeFileFailed ==
    ret \in {"ok", "err"} =>
        (ret = "err" <=> \E j \in 1..Len(files) : Fails(j))

C9_Witness ==
    /\ ret = "err"
    /\ success_count >= 1
    /\ \E j \in 1..Len(files) : DocAt(j).parses /\ DocAt(j).renders /\ Fails(j)

\* C10 as stated: after an entity's artifacts are emitted, every artifact
\* whose own write can succeed is on disk.
C10_EveryWritableArtifactWritten ==
    \A j \in 1..idx :
        (DocAt(j).parses /\ DocAt(j).renders) =>
            \A i \in 1..Len(Artifacts) :
                i \notin BadArtifacts(DocAt(j)) => OnDisk(Artifacts[i], DocAt(j))

FirstBad(doc) ==
    IF BadArtifacts(doc) = {} THEN Len(Artifacts) + 1
    ELSE CHOOSE i \in BadArtifacts(doc) : \A k \in BadArtifacts(doc) : i <= k

\* C10 amended: emitting one entity writes the artifacts in write_to_disk's
\* order up to the first failing write and nothing after it, leaves every
\* other file alone, and records one outcome for the whole entity.
C10_WriteStopsAtFirstFailure ==
    [][(idx' = idx + 1 /\ CurrentDoc.parses /\ CurrentDoc.renders) =>
          LET doc == CurrentDoc
              k == FirstBad(doc)
              Written(e) == \E i \in 1..(k - 1) :
                                /\ e.loc = Location(Artifacts[i], doc)
                                /\ e.content = <<Artifacts[i], doc.name, doc.table_name>>
          IN  /\ \A i \in 1..(k - 1) :
                   \E e \in disk' : /\ e.loc = Location(Artifacts[i], doc)
                                    /\ e.content = <<Artifacts[i], doc.name, doc.table_name>>
              /\ \A e \in disk' \ disk : Written(e)
              /\ \A e \in disk \ disk' :
                   \E i \in 1..(k - 1) : e.loc = Location(Artifacts[i], doc)
              /\ Len(results') = Len(results) + 1
              /\ results'[idx'][2] = (BadArtifacts(doc) = {})]_vars

C10_Witness ==
    /\ idx = 1
    /\ DocAt(1).parses /\ DocAt(1).renders
    /\ unwritable = {Location("model", DocAt(1))}
    /\ OnDisk("migration", DocAt(1))
    /\ OnDisk("edge_function", DocAt(1))
    /\ ~OnDisk("service", DocAt(1))
    /\ ~OnDisk("cli_client", DocAt(1))
    /\ results[1][2] = FALSE

\* C11: single-schema generation calls write_file on the artifacts in the
\* fixed order migration, validation schema, data-access, endpoint, model,
\* service, hook, admin page, demo component, command-line client; a call
\* fails exactly where the location is unwritable, the first failed call is
\* the last call and the command returns its error; every artifact written
\* before it is on disk with its content and no later artifact is.
C11_SingleWritesInOrderUntilFirstFailure ==
    LET n == Len(attempts)
    IN  /\ n <= Len(Artifacts)
        /\ \A k \in 1..n :
             /\ attempts[k].artifact = Artifacts[k]
             /\ attempts[k].ok <=> NewFiles[k].loc \notin unwritable
             /\ ~attempts[k].ok => k = n /\ ret = "err" /\ pc = "done"
             /\ attempts[k].ok =>
                  [path |-> NewFiles[k].path, loc |-> NewFiles[k].loc,
                   content |-> <<Artifacts[k], NewDoc.name, NewDoc.table_name>>]
                      \in disk
        /\ \A e \in disk :
             \E k \in 1..n : attempts[k].ok /\ e.path = NewFiles[k].path
        /\ ret = "ok" => n = Len(Artifacts) /\ \A k \in 1..n : attempts[k].ok
        /\ pc = "done" /\ n > 0 =>
             disk = write_to_disk({}, NewFiles, unwritable).disk

C11_Witness ==
    /\ ret = "err"
    /\ Len(attempts) = 5
    /\ attempts[5] = [artifact |-> "model", ok |-> FALSE]
    /\ Cardinality(disk) = 4
    /\ \E e \in disk : e.loc[1] = "edge_function"

\* The rearrangements of a list, and what a disk holds when the time in the
\* migration's file name is left aside.
ListPermutations(n) ==
    {p \in [1..n -> 1..n] : \A i, j \in 1..n : p[i] = p[j] => i = j}
Permuted(fs, p) == [i \in 1..Len(fs) |-> fs[p[i]]]
Contents(d) == {<<e.loc, e.content>> : e \in d}
WithoutMigrations(d) == {e \in d : e.loc[1] # "migration"}
BatchDone == pc = "none" /\ ret \in {"ok", "err"}

\* No two different files of the list hold entities that share a name or a
\* table name.
NoSharedOutput ==
    \A i, j \in 1..Len(files) :
        (files[i] # files[j] /\ DocAt(i).parses /\ DocAt(j).parses) =>
            /\ DocAt(i).name # DocAt(j).name
            /\ DocAt(i).table_name # DocAt(j).table_name

\* C12: a finished batch has the overall result and, the timestamped
\* migrations aside, the files and contents on disk that generate_batch
\* gives for every permutation of the input list.
C12_BatchOrderImmaterial ==
    BatchDone =>
        \A p \in ListPermutations(Len(files)) :
            LET r == generate_batch(Permuted(files, p), 1, {}, 0, 0)
            IN  /\ r.ret = ret
                /\ Contents(WithoutMigrations(r.disk))
                     = Contents(WithoutMigrations(disk))

\* C12 (amended): every permutation of the input list gives the same
\* overall result; when no two different files share an entity name or a
\* table name it also leaves the same files with the same contents, the
\* time in the migrations' file names aside.
C12_OrderImmaterialWithoutSharedOutput ==
    BatchDone =>
        \A p \in ListPermutations(Len(files)) :
            LET r == generate_batch(Permuted(files, p), 1, {}, 0, 0)
            IN  /\ r.ret = ret
                /\ NoSharedOutput => Contents(r.disk) = Contents(disk)

C12_Witness ==
    /\ BatchDone
    /\ ret = "err"
    /\ files = <<"a.yaml", "b.yaml">>
    /\ NoSharedOutput
    /\ DocAt(1).renders /\ DocAt(2).renders
    /\ Fails(1) /\ ~Fails(2)
    /\ \E e \in disk : e.content[2] = DocAt(1).name
    /\ Cardinality(disk) = 14

\* C13: check_schemas parses the listed files one after the other whatever
\* the earlier outcomes were, counting valid and invalid ones; it returns
\* only once every file has been attempted, Ok exactly when every file
\* parsed and Err exactly when at least one did not.
C13_CheckAttemptsEveryFile ==
    pc = "check" =>
        /\ Len(results) = idx
        /\ \A j \in 1..idx : results[j] = <<files[j], DocAt(j).parses>>
        /\ success_count = Cardinality({j \in 1..idx : DocAt(j).parses})
        /\ error_count = Cardinality({j \in 1..idx : ~DocAt(j).parses})
        /\ ret # "running" =>
             /\ idx = Len(files)
             /\ ret = "ok" <=> \A j \in 1..Len(files) : DocAt(j).parses
             /\ ret = "err" <=> \E j \in 1..Len(files) : ~DocAt(j).parses

C13_Witness ==
    /\ pc = "check"
    /\ ret = "err"
    /\ files = <<"a.yaml", "b.yaml">>
    /\ ~DocAt(1).parses
    /\ DocAt(2).parses
    /\ results = <<<<"a.yaml", FALSE>>, <<"b.yaml", TRUE>>>>
    /\ success_count = 1
    /\ error_count = 1

\* The field a type string in out was computed for, and the strings of a
\* list put one after the other with sep between neighbours, built from
\* the left.
OutField == schema.fields[out.field]

RECURSIVE Interleaved(_, _, _)
Interleaved(q, sep, k) ==
    IF k = 1 THEN q[1] ELSE Interleaved(q, sep, k - 1) \o sep \o q[k]

SingleQuoted(v) == [i \in 1..Len(v) |-> "'" \o v[i] \o "'"]

HasEnumValues(f) ==
    f.field_type = "enum" /\ f.enum_values # None /\ Len(f.enum_values[1]) >= 1

\* C14: for an Enum field with declared values v0..vn, typescript_type() is
\* 'v0' | ... | 'vn', zod_type() is z.enum(['v0', ..., 'vn']) and the
\* EnumFieldContext carries the list v0..vn unchanged.
C14_EnumTypeStringsKeepValues ==
    (out.kind \in {"typescript_type", "zod_type", "enum_field_context"}
       /\ HasEnumValues(OutField)) =>
        LET v == OutField.enum_values[1]
        IN  /\ out.kind = "typescript_type" =>
                 out.value = Interleaved(SingleQuoted(v), " | ", Len(v))
            /\ out.kind = "zod_type" =>
                 out.value = "z.enum(["
                               \o Interleaved(SingleQuoted(v), ", ", Len(v))
                               \o "])"
            /\ out.kind = "enum_field_context" =>
                 /\ out.value.enum_values = v
                 /\ out.value.name = OutField.name

C14_Witness ==
    /\ out.kind = "typescript_type"
    /\ HasEnumValues(OutField)
    /\ OutField.enum_values = Some(<<"draft", "published">>)
    /\ out.value = "'draft' | 'published'"

\* C15: every schema that from_yaml returns has, on each Enum field, an
\* enum_values list that is present and not empty.
C15_LoadedEnumFieldsCarryValues ==
    (pc = "load" /\ ret = "ok") =>
        \A i \in 1..Len(schema.fields) :
            schema.fields[i].field_type = "enum" =>
                /\ schema.fields[i].enum_values # None
                /\ schema.fields[i].enum_values[1] # <<>>

IsArrayWithoutElementType(f) == f.field_type = "array" /\ f.array_type = None

WithStringElements(f) == [f EXCEPT !.array_type = Some("string")]

\* C16: for an Array field without an element type, sql_type(),
\* typescript_type() and zod_type() give what they give for the same field
\* with element type "string": TEXT[], string[] and z.array(z.string()).
C16_ArrayDefaultsToStringElements ==
    (out.kind \in {"sql_type", "typescript_type", "zod_type"}
       /\ IsArrayWithoutElementType(OutField)) =>
        /\ out.kind = "sql_type" =>
             /\ out.value = sql_type(WithStringElements(OutField))
             /\ out.value = "TEXT[]"
        /\ out.kind = "typescript_type" =>
             /\ out.value = typescript_type(WithStringElements(OutField))
             /\ out.value = "string[]"
        /\ out.kind = "zod_type" =>
             /\ out.value = zod_type(WithStringElements(OutField))
             /\ out.value = "z.array(z.string())"

C16_Witness ==
    /\ out.kind = "sql_type"
    /\ IsArrayWithoutElementType(OutField)
    /\ out.value = "TEXT[]"
    /\ \E i \in 1..Len(schema.fields) :
         schema.fields[i] = WithStringElements(OutField)

\* r is the declared field list with the fields at some positions removed
\* and the others kept whole, once each, in declared order.
IsSubsequenceOfFields(r) ==
    \E keep \in SUBSET (1..Len(schema.fields)) : KeptAt(r, schema.fields, keep)

\* C17: writable_fields, updatable_fields, indexed_fields and enum_fields
\* each return a subsequence of the declared fields; indexed_fields keeps
\* exactly the fields with index = true and enum_fields exactly those of
\* type Enum; get_field(name) returns the first declared field of that
\* name, or none when no field has it.
C17_DerivedViewsAreSubsequences ==
    /\ out.kind \in {"writable_fields", "updatable_fields", "indexed_fields",
                     "enum_fields"} => IsSubsequenceOfFields(out.value)
    /\ out.kind = "indexed_fields" =>
         KeptAt(out.value, schema.fields,
                {j \in 1..Len(schema.fields) : schema.fields[j].index})
    /\ out.kind = "enum_fields" =>
         KeptAt(out.value, schema.fields, EnumPositions)
    /\ out.kind = "get_field" =>
         \/ /\ out.value = None
            /\ \A j \in 1..Len(schema.fields) : schema.fields[j].name # out.name
         \/ \E j \in 1..Len(schema.fields) :
              /\ schema.fields[j].name = out.name
              /\ \A k \in 1..(j - 1) : schema.fields[k].name # out.name
              /\ out.value = Some(schema.fields[j])

C17_Witness ==
    /\ out.kind = "get_field"
    /\ out.name = "title"
    /\ Len(schema.fields) = 2
    /\ schema.fields[1].name = "title"
    /\ schema.fields[2].name = "title"
    /\ schema.fields[1] # schema.fields[2]
    /\ out.value = Some(schema.fields[1])

\* The identifiers of the filters' examples, character by character.
UserProfileChars ==
    <<"U", "s", "e", "r", "P", "r", "o", "f", "i", "l", "e">>
user_profile_chars ==
    <<"u", "s", "e", "r", "_", "p", "r", "o", "f", "i", "l", "e">>
userIdChars == <<"u", "s", "e", "r", "I", "d">>
user_id_chars == <<"u", "s", "e", "r", "_", "i", "d">>

\* The string a filter was applied to.
Arg == value.chars

\* The positions of s before which snake_case inserts an underscore.
SnakeBreaks(s) == {i \in 2..Len(s) : is_uppercase(s[i])}

\* r is s with '_' put before every uppercase letter that is not the first
\* character and every character in lower case: the i-th character of s
\* lands i places further plus one place per break up to it.
IsSnakeOf(r, s) ==
    LET at(i) == i + Cardinality({u \in SnakeBreaks(s) : u <= i})
    IN  /\ Len(r) = Len(s) + Cardinality(SnakeBreaks(s))
        /\ \A i \in 1..Len(s) : r[at(i)] = to_lowercase(s[i])
        /\ \A u \in SnakeBreaks(s) : r[at(u) - 1] = "_"

\* r is the snake case of s with '-' in the place of every '_'.
IsKebabOf(r, s) ==
    LET at(i) == i + Cardinality({u \in SnakeBreaks(s) : u <= i})
        dashed(c) == IF c = "_" THEN "-" ELSE c
    IN  /\ Len(r) = Len(s) + Cardinality(SnakeBreaks(s))
        /\ \A i \in 1..Len(s) : r[at(i)] = dashed(to_lowercase(s[i]))
        /\ \A u \in SnakeBreaks(s) : r[at(u) - 1] = "-"

categoriesChars ==
    <<"c", "a", "t", "e", "g", "o", "r", "i", "e", "s">>
categoryChars == <<"c", "a", "t", "e", "g", "o", "r", "y">>
boxesChars == <<"b", "o", "x", "e", "s">>
boxChars == <<"b", "o", "x">>
catChars == <<"c", "a", "t">>

\* s without its underscores, the character after an underscore in upper
\* case and every other character as it is.
CamelOf(s) ==
    LET kept == {i \in 1..Len(s) : s[i] # "_"}
    IN  [k \in 1..Cardinality(kept) |->
            LET i == NthOf(kept, k)
            IN  IF i > 1 /\ s[i - 1] = "_" THEN to_uppercase(s[i]) ELSE s[i]]

LastAre(s, w) ==
    /\ Len(s) >= Len(w)
    /\ \A k \in 1..Len(w) : s[Len(s) - Len(w) + k] = w[k]
DropLast(s, n) == [i \in 1..(Len(s) - n) |-> s[i]]

\* C20: singular(s) applies the first rule that matches: a final "ies"
\* becomes "y"; of a final "ses", "zes" or "xes" the last two characters
\* go; of a final "s" the last character goes; otherwise s is unchanged.
\* singular of categories is category, of boxes box, of cat cat.
C20_SingularFirstMatchingRule ==
    (out.kind = "singular" /\ out.ok) =>
        /\ LastAre(Arg, <<"i", "e", "s">>) =>
             out.value = DropLast(Arg, 3) \o <<"y">>
        /\ (~LastAre(Arg, <<"i", "e", "s">>)
              /\ \E c \in {"s", "z", "x"} : LastAre(Arg, <<c, "e", "s">>)) =>
             out.value = DropLast(Arg, 2)
        /\ (LastAre(Arg, <<"s">>)
              /\ \A c \in {"i", "s", "z", "x"} : ~LastAre(Arg, <<c, "e", "s">>)) =>
             out.value = DropLast(Arg, 1)
        /\ ~LastAre(Arg, <<"s">>) => out.value = Arg
        /\ Arg = categoriesChars => out.value = categoryChars
        /\ Arg = boxesChars => out.value = boxChars
        /\ Arg = catChars => out.value = catChars

C20_Witness ==
    /\ out.kind = "singular"
    /\ out.ok
    /\ Arg = categoriesChars
    /\ out.value = categoryChars

FilterNames ==
    {"snake_case", "camel_case", "pascal_case", "kebab_case", "singular",
     "upper", "lower"}

\* C21: each of the seven filters returns a value, never an error, for every
\* input it is handed.
C21_FiltersNeverFail ==
    out.kind \in FilterNames => out.ok

\* C21 (amended): each of the seven filters returns a value for every
\* string, the empty string for the empty string, and an error exactly
\* when the value it is handed is not a string.
C21_FiltersTotalOnStrings ==
    out.kind \in FilterNames =>
        /\ out.ok <=> value.kind = "string"
        /\ value = StringValue(<<>>) => out.ok /\ out.value = <<>>
        /\ out.ok => Len(out.value) <= 2 * Len(Arg)

C21_Witness ==
    /\ out.kind = "singular"
    /\ value = StringValue(<<>>)
    /\ out.ok
    /\ out.value = <<>>

\* C22: any two generate_all calls on one schema under one project root
\* compute the same ten output paths.
C22_PathsSameForEveryCall ==
    pc = "paths" =>
        \A i, j \in 1..Len(results) : results[i].paths = results[j].paths

\* C22 (amended): any two generate_all calls on one schema under one
\* project root compute the same nine paths for the artifacts other than
\* the migration, each built from name and table_name only; the migration
\* is <root>/supabase/migrations/<timestamp>_create_<table_name>_table.sql
\* with the local time the call read, and is the same for two calls exactly
\* when they read the same second.
C22_PathsSameUpToMigrationTime ==
    pc = "paths" =>
        /\ \A i, j \in 1..Len(results) :
             /\ \A k \in 2..Len(Artifacts) :
                  results[i].paths[k] = results[j].paths[k]
             /\ results[i].paths[1] = results[j].paths[1]
                  <=> results[i].now = results[j].now
        /\ \A i \in 1..Len(results) :
             /\ results[i].paths[1] =
                  project_root \o "/supabase/migrations/"
                    \o timestamp(results[i].now) \o "_create_"
                    \o NewDoc.table_name \o "_table.sql"
             /\ \A other \in [name : {"Post", "Tag"}, table_name : {"posts", "tags"}] :
                  \A k \in 2..Len(Artifacts) :
                      results[i].paths[k] = output_path(Artifacts[k], other, 0)
                        <=> \/ /\ Artifacts[k] \in {"zod_schema", "edge_function"}
                               /\ other.table_name = NewDoc.table_name
                            \/ /\ Artifacts[k] = "demo_component"
                               /\ other.table_name = NewDoc.table_name
                               /\ other.name = NewDoc.name
                            \/ /\ Artifacts[k] \notin {"zod_schema", "edge_function",
                                                      "demo_component"}
                               /\ other.name = NewDoc.name

C22_Witness ==
    /\ pc = "paths"
    /\ Len(results) = 2
    /\ results[1].now = 0
    /\ results[2].now = 1
    /\ NewDoc.table_name = "posts"
    /\ results[1].paths[1]
         = "/project/supabase/migrations/20240101000000_create_posts_table.sql"
    /\ results[2].paths[1]
         = "/project/supabase/migrations/20240101000001_create_posts_table.sql"
    /\ results[1].paths[5] = results[2].paths[5]

\* C23: the operations of the validation-schema context equal, entry by
\* entry, what the shared builder gives with the enum-field exclusion on:
\* same op_type text, name, description, filters and limit per operation.
C23_ZodOperationsEqualBuilder ==
    out.kind = "zod_schema" =>
        LET built == OperationContextBuilder_build(schema, TRUE)
        IN  /\ Len(out.operations) = Len(schema.operations)
            /\ Len(built) = Len(schema.operations)
            /\ \A i \in 1..Len(out.operations) :
                 /\ out.operations[i].op_type = built[i].op_type
                 /\ out.operations[i].name = built[i].name
                 /\ out.operations[i].description = built[i].description
                 /\ out.operations[i].filters = built[i].filters
                 /\ out.operations[i].limit = built[i].limit

C23_Witness ==
    /\ out.kind = "zod_schema"
    /\ Len(schema.operations) = 2
    /\ schema.operations[1].op_type = "custom"
    /\ schema.operations[2].op_type = "delete"
    /\ "type" \in EnumNames
    /\ schema.operations[1].filters = <<"type", "title", "type">>
    /\ out.operations[1].filters = <<"title">>
    /\ out.operations[1].op_type = "custom"
    /\ out.operations[2].limit = Some(50)

\* The names used as a filter by any operation, in order of first appearance.
RECURSIVE FirstAppearances(_, _)
FirstAppearances(seen, names) ==
    IF names = <<>> THEN <<>>
    ELSE IF Head(names) \in seen THEN FirstAppearances(seen, Tail(names))
    ELSE <<Head(names)>> \o FirstAppearances(seen \cup {Head(names)}, Tail(names))

RECURSIVE AllFilterNames(_)
AllFilterNames(ops) ==
    IF ops = <<>> THEN <<>> ELSE Head(ops).filters \o AllFilterNames(Tail(ops))

FirstListFilters ==
    LET lists == {i \in 1..Len(schema.operations) :
                      schema.operations[i].op_type = "list"}
    IN  IF lists = {} THEN <<>>
        ELSE schema.operations[CHOOSE i \in lists : \A j \in lists : i <= j].filters

\* C24: in the data-access context list_filters is the filter list of the
\* first declared List operation (empty when there is none), and all_filters
\* holds every filter name of any operation exactly once: list_filters first,
\* then the other names in order of first appearance.
C24_AllFiltersUniqueListFirst ==
    out.kind = "repository_edge" =>
        /\ out.list_filters = FirstListFilters
        /\ Range(out.all_filters) = Range(AllFilterNames(schema.operations))
        /\ \A i, j \in 1..Len(out.all_filters) :
              out.all_filters[i] = out.all_filters[j] => i = j
        /\ out.all_filters =
              out.list_filters \o
              FirstAppearances(Range(out.list_filters),
                               AllFilterNames(schema.operations))

\* The number of ledger entries whose success flag is b.
RECURSIVE CountFlag(_, _)
CountFlag(ledger, b) ==
    IF ledger = <<>> THEN 0
    ELSE (IF Head(ledger)[2] = b THEN 1 ELSE 0) + CountFlag(Tail(ledger), b)

\* C25: after every iteration of the batch loop success_count + error_count
\* is the number of files processed, the ledger has one entry per processed
\* file in input order, and an entry's flag is true exactly when its file
\* incremented success_count (so the true flags number success_count and the
\* false ones error_count).
C25_LedgerMatchesCounters ==
    pc = "none" /\ ret # "idle" =>
        /\ success_count + error_count = idx
        /\ Len(results) = idx
        /\ idx <= Len(files)
        /\ \A i \in 1..Len(results) :
              results[i][1] = (IF docs[files[i]].parses THEN docs[files[i]].name
                               ELSE files[i])
        /\ CountFlag(results, TRUE) = success_count
        /\ CountFlag(results, FALSE) = error_count

C25_Witness ==
    /\ pc = "none"
    /\ ret = "running"
    /\ idx = 2
    /\ success_count = 1
    /\ error_count = 1
    /\ results[1][2] = FALSE
    /\ results[1][3] = "write"
    /\ results[2][2] = TRUE

\* An entity is being generated or written: the command has not returned
\* and the loop (of one file in single mode) has a file in hand.
InEntity == ret = "running" /\ pc # "done" /\ idx < Len(files)

\* C26: in single and in batch mode the ten artifacts are rendered before
\* any is written: the disk changes only once all ten are held in memory,
\* and while an entity whose rendering fails is processed the disk does not
\* change at all.
C26_RenderedBeforeWritten ==
    [][/\ disk' # disk =>
            /\ pc \in {"new_write", "batch_write"}
            /\ Len(out.files) = Len(Artifacts)
            /\ \A e \in disk' \ disk : \E i \in 1..Len(out.files) :
                   e.path = out.files[i].path
       /\ (InEntity /\ ~RenderDoc.renders) => disk' = disk]_vars

C26_Witness ==
    /\ pc = "batch_generate"
    /\ idx = 2
    /\ results[1][2] = TRUE
    /\ results[2] = <<"Tag", FALSE, "render">>
    /\ \E e \in disk : e.loc = Location("cli_client", docs[files[1]])
    /\ \A e \in disk : e.content[2] = "Post"

\* The migration's entry for the i-th declared field: two standard columns
\* come first.
MigrationEntry(i) == out.fields[i + 2]

StartsWithQuoteOrCall(d) ==
    d # <<>> /\ Head(d) \in {"'", "gen_random_uuid", "NOW"}

\* C27: in the migration's fields a declared field's default is wrapped in
\* single quotes exactly when its type is Enum or String and the default does
\* not already start with a quote, gen_random_uuid or NOW; any other default
\* passes through unchanged, and quoting the result again changes nothing.
C27_DefaultQuotedExactlyWhenNeeded ==
    out.kind = "migration" =>
        \A i \in 1..Len(schema.fields) :
            LET f == schema.fields[i]
                got == MigrationEntry(i).default
            IN  /\ f.default = None => got = None
                /\ f.default # None =>
                     LET d == f.default[1]
                         wraps == /\ f.field_type \in {"enum", "string"}
                                  /\ ~StartsWithQuoteOrCall(d)
                     IN  /\ wraps => got = Some(<<"'">> \o d \o <<"'">>)
                         /\ ~wraps => got = Some(d)
                /\ QuoteDefault([f EXCEPT !.default = got]) = got

C27_Witness ==
    /\ out.kind = "migration"
    /\ Len(schema.fields) = 2
    /\ schema.fields[1].field_type = "enum"
    /\ schema.fields[1].default = Some(<<"draft">>)
    /\ MigrationEntry(1).default = Some(<<"'", "draft", "'">>)
    /\ schema.fields[2].field_type = "string"
    /\ schema.fields[2].default = Some(<<"NOW", "HERE">>)
    /\ MigrationEntry(2).default = Some(<<"NOW", "HERE">>)

\* C30: in the migration context every declared field with index = true has
\* an entry in indexed_fields equal, attribute by attribute and so in its
\* default, to its entry in fields.
C30_IndexedEntryEqualsFieldEntry ==
    out.kind = "migration" =>
        \A i \in 1..Len(schema.fields) :
            schema.fields[i].index =>
                \E j \in 1..Len(out.indexed_fields) :
                    out.indexed_fields[j] = MigrationEntry(i)

\* C28: the command-line client's enum_fields are, in declared order, exactly
\* the Enum fields none of whose values at index >= 1 is the name of a
\* declared Custom operation; a name carried by an operation of another type
\* never drops a field.
C28_CLIKeepsAllButCustomConflicts ==
    out.kind = "cli_client" =>
        KeptAt(Names(out.enum_fields), Names(schema.fields),
               EnumPositions \ CustomConflictPositions)

\* char::is_lowercase on the model's characters.
IsLowercaseLetter(c) == c \in Range(LowercaseLetters) \cup {SharpS}

IsAscii(c) == c \notin {CapitalSharpS, SharpS}

\* s has no underscore and does not start with an uppercase letter.
CamelShaped(s) ==
    /\ "_" \notin Range(s)
    /\ s # <<>> => ~is_uppercase(s[1])

\* t is made of lowercase letters and underscores, does not start with an
\* underscore, and every underscore is followed by a lowercase letter.
SnakeShaped(t) ==
    /\ \A i \in 1..Len(t) : t[i] = "_" \/ IsLowercaseLetter(t[i])
    /\ t # <<>> => t[1] # "_"
    /\ \A i \in 1..Len(t) :
          t[i] = "_" => (i < Len(t) /\ IsLowercaseLetter(t[i + 1]))

\* C29 as stated: camel_case(snake_case(s)) = s for every s without an
\* underscore that does not start with an uppercase letter, and
\* snake_case(camel_case(t)) = t for every t of lowercase letters and
\* underscores, not starting with one, each followed by a lowercase letter.
C29_CaseRoundTrips ==
    /\ (out.kind = "snake_case" /\ out.ok /\ CamelShaped(Arg)) =>
           camel_case(out.value) = Arg
    /\ (out.kind = "camel_case" /\ out.ok /\ SnakeShaped(Arg)) =>
           snake_case(out.value) = Arg

\* C29 amended: the two round trips hold for the strings of those shapes
\* whose characters are all ASCII.
C29_CaseRoundTripsOnAscii ==
    /\ (out.kind = "snake_case" /\ out.ok /\ CamelShaped(Arg)
          /\ \A i \in 1..Len(Arg) : IsAscii(Arg[i])) =>
           camel_case(out.value) = Arg
    /\ (out.kind = "camel_case" /\ out.ok /\ SnakeShaped(Arg)
          /\ \A i \in 1..Len(Arg) : IsAscii(Arg[i])) =>
           snake_case(out.value) = Arg

C29_Witness ==
    /\ out.kind = "snake_case"
    /\ out.ok
    /\ Arg = userIdChars
    /\ out.value = user_id_chars
    /\ camel_case(out.value) = userIdChars
    /\ snake_case(camel_case(user_profile_chars)) = user_profile_chars

====
